---- MODULE Spec2Model ----
(***************************************************************************)
(* Live buy tracker of the Telegram buy bot: the setup wizard that stores  *)
(* a GroupConfig (feature.buyBot.ts), the periodic resync loop that opens  *)
(* one provider per chain and attaches one Swap listener per pool          *)
(* (syncListeners), and the swap pipeline (handleSwap,                     *)
(* sendPremiumBuyAlert).                                                   *)
(*                                                                         *)
(* Every async function is cut at its awaits: one action runs the code     *)
(* from one await to the next, as the JavaScript event loop does.          *)
(***************************************************************************)
EXTENDS Integers, Sequences, FiniteSets, TLC

VARIABLES
    defaultChain,     \* appConfig.defaultChain (read once from config.json)
    heap,             \* BuyBotSettings objects by object id (shared references)
    groupSettings,    \* Map groupId -> object id of its settings (0: no entry)
    groupOrder,       \* insertion order of groupSettings (Map iteration order)
    groupSetupStates, \* Map chatId -> wizard state (NoState: no entry)
    pendingToken,     \* text handlers awaiting fetchTokenPairs in the token step
    setups,           \* number of wizards started so far
    runtimes,         \* Map chain -> provider handle id (0: no entry)
    pairs,            \* runtime.pairs: chain -> set of lowercase pool addresses
    listeners,        \* chain -> lowercase pool address -> attached Swap callbacks
    providers,        \* chain -> number of providers constructed so far
    connFailed,       \* chains whose current provider connection has failed
    ticks,            \* running syncListeners calls, by timer slot
    handlers,         \* running handleSwap calls
    events,           \* number of Swap events emitted so far
    runsOf,           \* event id -> number of handleSwap calls it caused
    gateway,          \* log of bot.telegram send calls
    inRow,            \* history: the last tick ended, nothing changed since it began
    probe             \* a helper function called on its own: arguments and result

vars == <<defaultChain, heap, groupSettings, groupOrder, groupSetupStates,
          pendingToken, setups, runtimes, pairs, listeners, providers,
          connFailed, ticks, handlers, events, runsOf, gateway, inRow, probe>>

----------------------------------------------------------------------------
(* Bounds of the model *)

\* wizards started in one behaviour
MaxSetups == 2
\* syncListeners calls running at the same time (timer slots)
MaxTicks == 2
\* Swap events emitted in one behaviour
MaxEvents == 1
\* text handlers awaiting fetchTokenPairs at the same time
MaxPending == 2
\* largest balance and token-out amount of a position-increase computation,
\* next to the amounts of the documented example
MaxBalance == 30

----------------------------------------------------------------------------
(* Addresses: an identity and a letter case.  "cs" is the mixed-case        *)
(* (checksum) spelling an API or a user gives, "lc" the lowercase one.      *)

ToLowerCase(a) == <<a[1], "lc">>

SameAddress(a, b) == ToLowerCase(a) = ToLowerCase(b)

NoAddress == <<"none", "lc">>

----------------------------------------------------------------------------
(* Texts *)

\* Texts are sequences of characters; the empty one also stands for a field
\* that is not set (both are falsy).
NoText == <<>>

LowerChar(c) ==
    CASE c = "G" -> "g" [] c = "I" -> "i" [] c = "F" -> "f"
      [] c = "S" -> "s" [] c = "K" -> "k" [] c = "P" -> "p"
      [] c = "W" -> "w"
      [] OTHER -> c

\* String.prototype.toLowerCase
LowerText(t) == [i \in 1..Len(t) |-> LowerChar(t[i])]

\* String.prototype.endsWith
EndsWith(t, suffix) ==
    /\ Len(t) >= Len(suffix)
    /\ SubSeq(t, Len(t) - Len(suffix) + 1, Len(t)) = suffix

\* The answer that leaves an optional wizard step out.
Skip == <<"s", "k", "i", "p">>

----------------------------------------------------------------------------
(* The environment: chains of config.json, the pools the market-data and   *)
(* RPC collaborators know.                                                  *)

ConfiguredChains == {"bsc", "ethereum"}

\* The chain identifiers a config.json may name as its defaultChain; only the
\* ConfiguredChains have an entry in appConfig.chains.
KnownChains == ConfiguredChains \cup {"base"}

Groups == {1, 2}

TokenA == <<"A", "cs">>
TokenB == <<"B", "cs">>
TokenW == <<"W", "cs">>

\* A DexScreener pair record: pairAddress, baseToken, quoteToken, liquidity.usd.
\* token0/token1 are what the pair contract itself answers.
Pool1 == [pairAddress |-> <<"P1", "cs">>, baseToken |-> TokenA, quoteToken |-> TokenW,
          token0 |-> TokenA, token1 |-> TokenW, liquidityUsd |-> 50000]
Pool3 == [pairAddress |-> <<"P3", "cs">>, baseToken |-> TokenA, quoteToken |-> TokenB,
          token0 |-> TokenB, token1 |-> TokenA, liquidityUsd |-> 500]

\* The upstream's reply order (not sorted by liquidity).
UpstreamPairs == <<Pool3, Pool1>>

PoolOf(addr) ==
    CHOOSE p \in {UpstreamPairs[i] : i \in 1..Len(UpstreamPairs)} :
        SameAddress(p.pairAddress, addr)

LowerPools == {ToLowerCase(UpstreamPairs[i].pairAddress) : i \in 1..Len(UpstreamPairs)}

----------------------------------------------------------------------------
(* Sequence helpers *)

RECURSIVE SelectPairs(_, _, _)
\* Array.prototype.filter for a token: keeps the order of the reply.
SelectPairs(s, token, floor) ==
    IF s = <<>> THEN <<>>
    ELSE LET p == Head(s)
             rest == SelectPairs(Tail(s), token, floor)
         IN IF (SameAddress(p.baseToken, token) \/ SameAddress(p.quoteToken, token))
               /\ p.liquidityUsd > floor
            THEN <<p>> \o rest
            ELSE rest

RECURSIVE InsertDesc(_, _)
\* Inserts p after every element whose liquidity is >= its own (stable).
InsertDesc(sorted, p) ==
    IF sorted = <<>> THEN <<p>>
    ELSE IF Head(sorted).liquidityUsd >= p.liquidityUsd
         THEN <<Head(sorted)>> \o InsertDesc(Tail(sorted), p)
         ELSE <<p>> \o sorted

RECURSIVE SortDesc(_)
\* Array.prototype.sort((a, b) => b.liq - a.liq): stable, descending.
SortDesc(s) ==
    IF s = <<>> THEN <<>>
    ELSE InsertDesc(SortDesc(SubSeq(s, 1, Len(s) - 1)), s[Len(s)])

Addresses(s) == [i \in 1..Len(s) |-> s[i].pairAddress]

\* A test that any listed pool would pass.
IncludesAny(s, addr) == s # <<>>

\* s.some((p) => p.toLowerCase() === addr.toLowerCase())
Includes(s, addr) == \E i \in 1..Len(s) : SameAddress(s[i], addr)

----------------------------------------------------------------------------
(* Numbers.  Dollar amounts are counted in thousandths of a dollar, raw    *)
(* on-chain amounts in units of 10^RawExp wei.  Undefined stands for a      *)
(* missing (undefined) numeric field, NaN for JavaScript's NaN.             *)

Undefined == -1
NaN == -2
Milli == 1000

\* Number(text): the texts a user sends at a numeric step, already parsed.
\* NaN is a text that is no number, Undefined the text "skip".
MinBuyTexts == {NaN, 50 * Milli}
MaxBuyTexts == {Undefined, NaN, 100 * Milli}
PerEmojiTexts == {NaN, 50 * Milli}
ImageTexts == {<<"S", "k", "i", "p">>, <<"a", ".", "G", "I", "F">>}
TgGroupTexts == {"skip"}
TokenTexts == {TokenA, TokenB}
PairTexts == {<<"P1", "lc">>, <<"P3", "cs">>}

----------------------------------------------------------------------------
(* The setup wizard (group flow): bot.action("setup_here"), bot.on("text") *)
(* and runSetupStep.                                                        *)

NoState == [step |-> "none"]

NewState(sid, chain) ==
    [step |-> "token", sid |-> sid, chain |-> chain,
     tokenAddress |-> NoAddress, pairAddress |-> NoAddress,
     allPairAddresses |-> <<>>, imageUrl |-> NoText,
     minBuyUsd |-> Undefined, maxBuyUsd |-> Undefined,
     dollarsPerEmoji |-> Undefined, tgGroupLink |-> "none"]

NoConfig == [chain |-> "none"]

\* fetchTokenPairs: the pools of the token with liquidity.usd > 0 in reply
\* order, or [] when the request fails (the catch) or nothing matches.
TokenPairsOf(reply, token) == SelectPairs(reply, token, 0)

FetchTokenPairs(token, ok) ==
    IF ok THEN TokenPairsOf(UpstreamPairs, token) ELSE <<>>

sortPairsByLiquidity(prs) == SortDesc(prs)

\* A last step that would store the settings without any pool.
FinalSettingsNoPools(st, link) ==
    [chain |-> st.chain, tokenAddress |-> st.tokenAddress,
     pairAddress |-> st.pairAddress, allPairAddresses |-> <<>>,
     imageUrl |-> st.imageUrl, minBuyUsd |-> st.minBuyUsd,
     maxBuyUsd |-> st.maxBuyUsd, dollarsPerEmoji |-> st.dollarsPerEmoji,
     tgGroupLink |-> link]

\* The settings object built by the last wizard step.
FinalSettings(st, link) ==
    [chain |-> st.chain,
     tokenAddress |-> st.tokenAddress,
     pairAddress |-> st.pairAddress,
     allPairAddresses |->
        IF st.allPairAddresses # <<>> THEN st.allPairAddresses
        ELSE IF st.pairAddress # NoAddress THEN <<st.pairAddress>> ELSE <<>>,
     imageUrl |-> st.imageUrl,
     minBuyUsd |-> IF st.minBuyUsd = Undefined THEN 0 ELSE st.minBuyUsd,
     maxBuyUsd |-> st.maxBuyUsd,
     dollarsPerEmoji |->
        IF st.dollarsPerEmoji = Undefined THEN 50 * Milli ELSE st.dollarsPerEmoji,
     tgGroupLink |-> IF link = "skip" THEN st.tgGroupLink ELSE link]

\* The state after case "token" when fetchTokenPairs answered prs: pools
\* found, or none (then the pair step).
AfterTokenPairs(st, text, prs) ==
    LET sorted == sortPairsByLiquidity(prs)
    IN IF prs = <<>>
       THEN [st EXCEPT !.tokenAddress = text, !.step = "pair"]
       ELSE [st EXCEPT !.tokenAddress = text,
                       !.pairAddress = sorted[1].pairAddress,
                       !.allPairAddresses = Addresses(sorted),
                       !.step = "emoji"]

AfterToken(st, text, ok) == AfterTokenPairs(st, text, FetchTokenPairs(text, ok))

\* The state after case "pair".
AfterPair(st, text) ==
    [st EXCEPT !.pairAddress = text, !.allPairAddresses = <<text>>, !.step = "emoji"]

\* The states the wizard can be in when it reaches the emoji step.
AtEmoji(chain, tokens, pairTexts) ==
    LET tok == {AfterToken(NewState(0, chain), text, ok) : text \in tokens, ok \in BOOLEAN}
    IN {st \in tok : st.step = "emoji"}
       \cup {AfterPair(st, text) : st \in {s \in tok : s.step = "pair"}, text \in pairTexts}

\* The settings a wizard run can store: every accepted answer of every step.
WizardFinals(chain, tokens, pairTexts, mins, maxs, pers) ==
    {FinalSettings([st EXCEPT !.minBuyUsd = mn, !.maxBuyUsd = mx,
                              !.dollarsPerEmoji = pe], "skip") :
        st \in AtEmoji(chain, tokens, pairTexts),
        mn \in {v \in mins : ~(v = NaN \/ v < 0)},
        mx \in {v \in maxs : v = Undefined \/ ~(v = NaN \/ v <= 0)},
        pe \in {v \in pers : ~(v = NaN \/ v <= 0)}}

\* The same settings with each image URL the image step can leave behind.
WithImages(finals, texts) ==
    {[f EXCEPT !.imageUrl = IF LowerText(t) = Skip THEN @ ELSE t] :
        f \in finals, t \in texts}

TickSlots == 1..MaxTicks

\* A timer slot with no syncListeners call running.
Idle == [pc |-> "idle"]

\* History: stored settings were written while these calls were running.
Touched(tk) ==
    [t \in TickSlots |->
        IF tk[t].pc = "idle" THEN tk[t] ELSE [tk[t] EXCEPT !.clean = FALSE]]

\* A whole wizard run for the chat, from "setup_here" to the text handler's
\* groupSettings.set(chatId, final).  The wizard's own state is private to it
\* and the tracker never reads it, so the run is one step for the tracker.
StoreSettings(chat, final) ==
    /\ setups < MaxSetups
    /\ \A g \in Groups : groupSetupStates[g].step = "none"
    /\ setups' = setups + 1
    /\ heap' = [heap EXCEPT ![setups + 1] = final]
    /\ groupSettings' = [groupSettings EXCEPT ![chat] = setups + 1]
    /\ groupOrder' = IF groupSettings[chat] = 0
                     THEN Append(groupOrder, chat) ELSE groupOrder
    /\ ticks' = Touched(ticks)
    /\ inRow' = FALSE
    /\ UNCHANGED <<probe, defaultChain, groupSetupStates, pendingToken, runtimes, pairs,
                   listeners, providers, connFailed, handlers, events, runsOf,
                   gateway>>

WizardUnchanged ==
    UNCHANGED <<probe, defaultChain, heap, groupSettings, groupOrder, setups, runtimes,
                pairs, listeners, providers, connFailed, ticks, handlers,
                events, runsOf, gateway, inRow>>

\* bot.action("setup_here"): a fresh wizard state for the chat.
SetupHere(chat) ==
    /\ setups < MaxSetups
    /\ setups' = setups + 1
    /\ groupSetupStates' =
          [groupSetupStates EXCEPT ![chat] = NewState(setups + 1, defaultChain)]
    /\ UNCHANGED <<probe, defaultChain, heap, groupSettings, groupOrder, pendingToken,
                   runtimes, pairs, listeners, providers, connFailed, ticks,
                   handlers, events, runsOf, gateway, inRow>>

\* case "token", up to the await of fetchTokenPairs.
StepTokenBegin(chat, text) ==
    /\ groupSetupStates[chat].step = "token"
    /\ Cardinality(pendingToken) < MaxPending
    /\ groupSetupStates' = [groupSetupStates EXCEPT ![chat].tokenAddress = text]
    /\ pendingToken' = pendingToken \cup
          {[chat |-> chat, sid |-> groupSetupStates[chat].sid, token |-> text]}
    /\ UNCHANGED setups
    /\ WizardUnchanged

\* case "token", after fetchTokenPairs answered.  The handler holds the state
\* object it read before the await; a wizard restarted meanwhile has another.
StepTokenEnd(p, ok) ==
    /\ p \in pendingToken
    /\ pendingToken' = pendingToken \ {p}
    /\ LET st == groupSetupStates[p.chat]
           prs == FetchTokenPairs(p.token, ok)
           sorted == sortPairsByLiquidity(prs)
       IN IF st.step = "none" \/ st.sid # p.sid
          THEN UNCHANGED groupSetupStates
          ELSE IF prs = <<>>
          THEN groupSetupStates' = [groupSetupStates EXCEPT ![p.chat].step = "pair"]
          ELSE groupSetupStates' =
                  [groupSetupStates EXCEPT
                      ![p.chat].pairAddress = sorted[1].pairAddress,
                      ![p.chat].allPairAddresses = Addresses(sorted),
                      ![p.chat].step = "emoji"]
    /\ UNCHANGED setups
    /\ WizardUnchanged

\* case "pair"
StepPair(chat, text) ==
    /\ groupSetupStates[chat].step = "pair"
    /\ groupSetupStates' =
          [groupSetupStates EXCEPT ![chat].pairAddress = text,
                                   ![chat].allPairAddresses = <<text>>,
                                   ![chat].step = "emoji"]
    /\ UNCHANGED <<setups, pendingToken>>
    /\ WizardUnchanged

\* case "emoji" (the emoji itself only decorates the message)
StepEmoji(chat) ==
    /\ groupSetupStates[chat].step = "emoji"
    /\ groupSetupStates' = [groupSetupStates EXCEPT ![chat].step = "image"]
    /\ UNCHANGED <<setups, pendingToken>>
    /\ WizardUnchanged

\* case "image"
StepImage(chat, text) ==
    /\ groupSetupStates[chat].step = "image"
    /\ groupSetupStates' =
          [groupSetupStates EXCEPT
              ![chat].imageUrl = IF LowerText(text) = Skip THEN @ ELSE text,
              ![chat].step = "minBuy"]
    /\ UNCHANGED <<setups, pendingToken>>
    /\ WizardUnchanged

\* case "minBuy": isNaN(val) || val < 0 keeps the step.
StepMinBuy(chat, val) ==
    /\ groupSetupStates[chat].step = "minBuy"
    /\ IF val = NaN \/ val < 0
       THEN UNCHANGED groupSetupStates
       ELSE groupSetupStates' =
               [groupSetupStates EXCEPT ![chat].minBuyUsd = val,
                                        ![chat].step = "maxBuy"]
    /\ UNCHANGED <<setups, pendingToken>>
    /\ WizardUnchanged

\* case "maxBuy": "skip" leaves maxBuyUsd undefined.
StepMaxBuy(chat, val) ==
    /\ groupSetupStates[chat].step = "maxBuy"
    /\ IF val = Undefined
       THEN groupSetupStates' = [groupSetupStates EXCEPT ![chat].step = "perEmoji"]
       ELSE IF val = NaN \/ val <= 0
       THEN UNCHANGED groupSetupStates
       ELSE groupSetupStates' =
               [groupSetupStates EXCEPT ![chat].maxBuyUsd = val,
                                        ![chat].step = "perEmoji"]
    /\ UNCHANGED <<setups, pendingToken>>
    /\ WizardUnchanged

\* A step that would take any reply for the dollars per emoji.
StepPerEmojiAny(chat, val) ==
    /\ groupSetupStates[chat].step = "perEmoji"
    /\ groupSetupStates' =
          [groupSetupStates EXCEPT ![chat].dollarsPerEmoji = val,
                                   ![chat].step = "tgGroup"]
    /\ UNCHANGED <<setups, pendingToken>>
    /\ WizardUnchanged

\* case "perEmoji": isNaN(val) || val <= 0 keeps the step.
StepPerEmoji(chat, val) ==
    /\ groupSetupStates[chat].step = "perEmoji"
    /\ IF val = NaN \/ val <= 0
       THEN UNCHANGED groupSetupStates
       ELSE groupSetupStates' =
               [groupSetupStates EXCEPT ![chat].dollarsPerEmoji = val,
                                        ![chat].step = "tgGroup"]
    /\ UNCHANGED <<setups, pendingToken>>
    /\ WizardUnchanged

\* case "tgGroup" and the text handler's groupSettings.set / states.delete.
\* The new settings object gets the wizard's id as its object id.
StepTgGroup(chat, text) ==
    /\ groupSetupStates[chat].step = "tgGroup"
    /\ LET st == groupSetupStates[chat]
       IN /\ heap' = [heap EXCEPT ![st.sid] = FinalSettings(st, text)]
          /\ groupSettings' = [groupSettings EXCEPT ![chat] = st.sid]
          /\ groupOrder' = IF groupSettings[chat] = 0
                           THEN Append(groupOrder, chat) ELSE groupOrder
    /\ groupSetupStates' = [groupSetupStates EXCEPT ![chat] = NoState]
    /\ ticks' = Touched(ticks)
    /\ inRow' = FALSE
    /\ UNCHANGED <<probe, defaultChain, setups, pendingToken, runtimes, pairs, listeners,
                   providers, connFailed, handlers, events, runsOf, gateway>>

Wizard ==
    \/ \E chat \in Groups : SetupHere(chat)
    \/ \E chat \in Groups, text \in TokenTexts : StepTokenBegin(chat, text)
    \/ \E p \in pendingToken, ok \in BOOLEAN : StepTokenEnd(p, ok)
    \/ \E chat \in Groups, text \in PairTexts : StepPair(chat, text)
    \/ \E chat \in Groups : StepEmoji(chat)
    \/ \E chat \in Groups, text \in ImageTexts : StepImage(chat, text)
    \/ \E chat \in Groups, val \in MinBuyTexts : StepMinBuy(chat, val)
    \/ \E chat \in Groups, val \in MaxBuyTexts : StepMaxBuy(chat, val)
    \/ \E chat \in Groups, val \in PerEmojiTexts : StepPerEmoji(chat, val)
    \/ \E chat \in Groups, text \in TgGroupTexts : StepTgGroup(chat, text)

----------------------------------------------------------------------------
(* The resync loop: startLiveBuyTracker's timer and syncListeners.          *)

\* getAllValidPairs: the pools of the token on the chain with liquidity.usd
\* above 1000, sorted by liquidity, or [] when the request fails.
LiquidityFloor == 1000

ValidPairsOf(reply, token) == SortDesc(SelectPairs(reply, token, LiquidityFloor))

GetAllValidPairs(token, ok) ==
    IF ok THEN ValidPairsOf(UpstreamPairs, token) ELSE <<>>

\* Every group's ordered pool set.
PoolSets ==
    [g \in Groups |->
        IF groupSettings[g] = 0 THEN <<>> ELSE heap[groupSettings[g]].allPairAddresses]

\* The locals of a syncListeners call at the top of the loop, with what the
\* call has done so far (tries: token0/token1 reads for the pool at hand;
\* calls: pools it has read; gaveUp, attached: how each read ended) and what it started
\* from: second (it directly follows a finished call, no settings written
\* since that one began), clean (no settings written since by others),
\* pairsAtStart and setsAtStart (the registry and the groups' pool sets, kept
\* for a second call), failedAtStart (connections already lost),
\* setupsAtStart (how many settings objects the wizard had stored).
NewTick ==
    LET second == inRow /\ \A t \in TickSlots : ticks[t].pc = "idle"
    IN [pc |-> "run", gi |-> 0, oid |-> 0, pools |-> <<>>, pi |-> 0, r0 |-> FALSE,
        tries |-> 0, calls |-> {}, gaveUp |-> {}, attached |-> {},
        second |-> second,
        clean |-> TRUE,
        pairsAtStart |-> IF second THEN pairs ELSE [c \in KnownChains |-> {}],
        setsAtStart |-> IF second THEN PoolSets ELSE [g \in Groups |-> <<>>],
        failedAtStart |-> connFailed,
        setupsAtStart |-> setups]

\* What a synchronous stretch of the loop leaves behind.
Ctx(st, rt, pv) == [tick |-> st, runtimes |-> rt, providers |-> pv]

\* A loop that would construct a provider without looking the chain up.
NeedsRuntimeAlways(rt, chain) == TRUE

\* let runtime = runtimes.get(chain); if (!runtime) { ...; runtimes.set(...) }
NeedsRuntime(rt, chain) == rt[chain] = 0

EnsureRuntime(c, chain) ==
    IF NeedsRuntime(c.runtimes, chain)
    THEN [c EXCEPT !.providers[chain] = @ + 1,
                   !.runtimes[chain] = c.providers[chain] + 1]
    ELSE c

\* A check that would let only the main pair through.
IsMainPair(settings, addr) == addr = ToLowerCase(settings.pairAddress)

\* const isValidPair = addr === pairAddress.toLowerCase() || all.map(lower).includes(addr)
IsValidPair(settings, addr) ==
    \/ addr = ToLowerCase(settings.pairAddress)
    \/ Includes(settings.allPairAddresses, addr)

\* A loop that would not look the pool up in the registry.
HasPairNever(prs, chain, addr) == FALSE

\* if (runtime.pairs.has(addr)) continue;
HasPair(prs, chain, addr) == addr \in prs[chain]

RECURSIVE NextGroup(_, _, _, _)
RECURSIVE NextPool(_, _, _, _)

\* The for-of over settings.allPairAddresses from index pi on, up to the next
\* await: the token0/token1 read of the first pool without a registry entry.
NextPool(c, pi, hp, prs) ==
    LET st == c.tick
        chain == hp[st.oid].chain
    IN IF pi > Len(st.pools)
       THEN NextGroup(c, st.gi + 1, hp, prs)
       ELSE LET addr == ToLowerCase(st.pools[pi])
            IN IF ~IsValidPair(hp[st.oid], addr) \/ HasPair(prs, chain, addr)
               THEN NextPool(c, pi + 1, hp, prs)
               ELSE [c EXCEPT !.tick.pc = "resolve", !.tick.pi = pi,
                              !.tick.tries = 1, !.tick.calls = @ \cup {addr}]

\* A loop that would take every chain for configured.
HasChainCfgAlways(chain) == TRUE

\* const chainCfg = appConfig.chains[chain]; if (!chainCfg) continue;
HasChainCfg(chain) == chain \in ConfiguredChains

\* The for-of over groupSettings.entries() from index gi on (a Map iterator
\* is live: it sees entries added while the call awaits).
NextGroup(c, gi, hp, prs) ==
    IF gi > Len(groupOrder)
    THEN [c EXCEPT !.tick.pc = "done"]
    ELSE LET oid == groupSettings[groupOrder[gi]]
             chain == hp[oid].chain
         IN IF ~HasChainCfg(chain)
            THEN NextGroup(c, gi + 1, hp, prs)
            ELSE IF hp[oid].allPairAddresses = <<>>
            THEN [c EXCEPT !.tick.pc = "discover", !.tick.gi = gi, !.tick.oid = oid]
            ELSE NextPool([EnsureRuntime(c, chain) EXCEPT
                              !.tick.gi = gi, !.tick.oid = oid,
                              !.tick.pools = hp[oid].allPairAddresses],
                          1, hp, prs)

TickChain(t) == heap[ticks[t].oid].chain

TickAddr(t) == ToLowerCase(ticks[t].pools[ticks[t].pi])

TickUnchanged ==
    UNCHANGED <<probe, defaultChain, groupSettings, groupOrder, groupSetupStates,
                pendingToken, setups, connFailed, handlers, events, runsOf,
                gateway>>

Install(t, c) ==
    /\ ticks' = [ticks EXCEPT ![t] = c.tick]
    /\ runtimes' = c.runtimes
    /\ providers' = c.providers

\* The timer fires (or startLiveBuyTracker's first call): syncListeners runs
\* up to its first await.  Slots are taken lowest first.
TickStart(t) ==
    /\ ticks[t].pc = "idle"
    /\ \A u \in TickSlots : u < t => ticks[u].pc # "idle"
    /\ Install(t, NextGroup(Ctx(NewTick, runtimes, providers), 1, heap, pairs))
    /\ inRow' = FALSE
    /\ UNCHANGED <<heap, pairs, listeners>>
    /\ TickUnchanged

\* getAllValidPairs answered for a group whose pool set was empty.
TickDiscovered(t, ok) ==
    /\ ticks[t].pc = "discover"
    /\ LET st == ticks[t]
           chain == heap[st.oid].chain
           valid == GetAllValidPairs(heap[st.oid].tokenAddress, ok)
           hp == IF valid # <<>>
                 THEN [heap EXCEPT ![st.oid].allPairAddresses = Addresses(valid)]
                 ELSE heap
           c == EnsureRuntime(Ctx(st, runtimes, providers), chain)
       IN /\ heap' = hp
          /\ LET d == IF hp[st.oid].allPairAddresses = <<>>
                      THEN NextGroup(c, st.gi + 1, hp, pairs)
                      ELSE NextPool([c EXCEPT !.tick.pools = hp[st.oid].allPairAddresses],
                                    1, hp, pairs)
             IN /\ ticks' = IF hp = heap THEN [ticks EXCEPT ![t] = d.tick]
                            ELSE [Touched(ticks) EXCEPT ![t] = d.tick]
                /\ runtimes' = d.runtimes
                /\ providers' = d.providers
    /\ UNCHANGED <<pairs, listeners, inRow>>
    /\ TickUnchanged

\* runtime.pairs.set(addr, ...); contract.on("Swap", ...); then on to the next pool.
Subscribe(t) ==
    LET st == ticks[t]
        chain == TickChain(t)
        addr == TickAddr(t)
        prs == [pairs EXCEPT ![chain] = @ \cup {addr}]
    IN /\ pairs' = prs
       /\ listeners' = [listeners EXCEPT ![chain][addr] = @ + 1]
       /\ Install(t, NextPool(Ctx([st EXCEPT !.attached =
                                        @ \cup {[addr |-> addr, tries |-> st.tries]}],
                                  runtimes, providers),
                              st.pi + 1, heap, prs))

\* A loop that would return at the first failed pool.
SkipPoolAbort(c, pi, hp, prs) == [c EXCEPT !.tick.pc = "done"]

\* continue: the pool is skipped for this call.
SkipPool(c, pi, hp, prs) == NextPool(c, pi + 1, hp, prs)

GiveUp(t, r0, r1) ==
    LET st == ticks[t]
    IN /\ Install(t, SkipPool(Ctx([st EXCEPT !.gaveUp =
                                        @ \cup {[addr |-> TickAddr(t), tries |-> st.tries,
                                                 resolved |-> r0 /\ r1]}],
                                  runtimes, providers),
                              st.pi, heap, pairs))
       /\ UNCHANGED <<pairs, listeners>>

\* Promise.all([contract.token0(), contract.token1()]) resolved.
TickResolved(t) ==
    /\ ticks[t].pc = "resolve"
    /\ TickChain(t) \notin connFailed
    /\ Subscribe(t)
    /\ UNCHANGED <<heap, inRow>>
    /\ TickUnchanged

\* A loop that would read again on every chain.
RetriesOnAnyChain(chain) == TRUE

\* if (chain === "ethereum") { retry } else { continue }
Retries(chain) == chain = "ethereum"

\* Promise.all([contract.token0(), contract.token1()]) rejected.
TickRejected(t) ==
    /\ ticks[t].pc = "resolve"
    /\ IF Retries(TickChain(t))
       THEN /\ ticks' = [ticks EXCEPT ![t].pc = "retry0", ![t].tries = @ + 1]
            /\ UNCHANGED <<runtimes, providers, pairs, listeners>>
       ELSE GiveUp(t, FALSE, FALSE)
    /\ UNCHANGED <<heap, inRow>>
    /\ TickUnchanged

\* await contract.token0().catch(() => null) answered (ok: not null).
TickRetry0(t, ok) ==
    /\ ticks[t].pc = "retry0"
    /\ ok => TickChain(t) \notin connFailed
    /\ ticks' = [ticks EXCEPT ![t].pc = "retry1", ![t].r0 = ok]
    /\ UNCHANGED <<heap, runtimes, providers, pairs, listeners, inRow>>
    /\ TickUnchanged

\* await contract.token1().catch(() => null) answered (ok: not null).
TickRetry1(t, ok) ==
    /\ ticks[t].pc = "retry1"
    /\ ok => TickChain(t) \notin connFailed
    /\ IF ticks[t].r0 /\ ok THEN Subscribe(t) ELSE GiveUp(t, ticks[t].r0, ok)
    /\ UNCHANGED <<heap, inRow>>
    /\ TickUnchanged

\* The call's promise settles; the timer slot is free again.
TickReturn(t) ==
    /\ ticks[t].pc = "done"
    /\ ticks' = [ticks EXCEPT ![t] = Idle]
    /\ inRow' = (ticks[t].clean /\ \A u \in TickSlots \ {t} : ticks[u].pc = "idle")
    /\ UNCHANGED <<heap, runtimes, providers, pairs, listeners>>
    /\ TickUnchanged

\* Promise.all([contract.token0(), contract.token1()]) never settles: the call
\* is never resumed.  No timeout bounds the read, and the timer starts the next
\* call whether or not this one has returned, so its slot is free again.
TickHangs(t) ==
    /\ ticks[t].pc = "resolve"
    /\ ticks' = [ticks EXCEPT ![t] = Idle]
    /\ inRow' = FALSE
    /\ UNCHANGED <<heap, runtimes, providers, pairs, listeners>>
    /\ TickUnchanged

\* The provider's connection drops.  Nothing in the tracker listens for it.
ConnectionFails(chain) ==
    /\ runtimes[chain] # 0
    /\ chain \notin connFailed
    /\ connFailed' = connFailed \cup {chain}
    /\ UNCHANGED <<probe, defaultChain, heap, groupSettings, groupOrder, groupSetupStates,
                   pendingToken, setups, runtimes, pairs, listeners, providers,
                   ticks, handlers, events, runsOf, gateway, inRow>>

Resync ==
    \/ \E t \in TickSlots : TickStart(t)
    \/ \E t \in TickSlots : TickResolved(t)
    \/ \E t \in TickSlots : TickRejected(t)
    \/ \E t \in TickSlots, ok \in BOOLEAN : TickRetry0(t, ok)
    \/ \E t \in TickSlots, ok \in BOOLEAN : TickRetry1(t, ok)
    \/ \E t \in TickSlots : TickReturn(t)

----------------------------------------------------------------------------
(* The swap pipeline: the Swap callback, handleSwap, sendPremiumBuyAlert.   *)

\* Raw amounts are counted in units of 10^RawExp wei.
RawExp == 15

RECURSIVE Pow10(_)
Pow10(n) == IF n = 0 THEN 1 ELSE 10 * Pow10(n - 1)

\* parseFloat(ethers.utils.formatUnits(raw, decimals)), in thousandths.
FormatUnits(raw, decimals) ==
    IF RawExp + 3 >= decimals
    THEN raw * Pow10(RawExp + 3 - decimals)
    ELSE raw \div Pow10(decimals - RawExp - 3)

\* The arguments of the Swap events the chain emits: the raw amounts and the
\* number of the block the event is in.
InAmounts == {0, 83, 167}
OutAmounts == {0, 7}
SwapAmounts ==
    [amount0In : InAmounts, amount1In : InAmounts,
     amount0Out : OutAmounts, amount1Out : OutAmounts, blockNumber : {21}]

\* The price the ticker answers when it answers with one, in dollars.
TickerPrice == 600

\* getNativePrice: parseFloat(data.price) of the reply, the chain's constant
\* when the request throws, NaN when the reply carries no price.
BscFallbackPrice == 875
EthFallbackPrice == 3400

PriceReplies == {"price", "throws", "noprice"}

GetNativePrice(chain, reply) ==
    CASE reply = "price" -> TickerPrice
      [] reply = "throws" -> IF chain = "bsc" THEN BscFallbackPrice ELSE EthFallbackPrice
      [] OTHER -> NaN

\* IEEE arithmetic and comparisons: NaN is never less or greater.
Times(a, b) == IF a = NaN \/ b = NaN THEN NaN ELSE a * b
Less(a, b) == a # NaN /\ b # NaN /\ a < b
Greater(a, b) == a # NaN /\ b # NaN /\ a > b
Truthy(x) == x # Undefined /\ x # NaN /\ x # 0

\* Math.trunc in its place: the cents dropped.
MathRoundTrunc(m) == IF m = NaN THEN NaN ELSE m \div Milli

\* Math.round of an amount in thousandths, in whole dollars.
MathRound(m) == IF m = NaN THEN NaN ELSE (m + Milli \div 2) \div Milli

\* positionIncrease: number | null
Null == -3

\* Math.round(Number(q) / 10) for a bigint q that is not negative.
RoundTenths(q) == (q + 5) \div 10

\* The percentage with its last digit dropped instead of rounded.
PositionIncreaseTruncated(prevBalance, tokenOut) ==
    IF prevBalance > 0
    THEN ((((prevBalance + tokenOut) - prevBalance) * 1000) \div prevBalance) \div 10
    ELSE Null

\* currentBalance = prevBalance + tokenOut; if (prevBalance > 0n)
\* Math.round(Number((diff * 1000n) / prevBalance) / 10), else null.
PositionIncrease(prevBalance, tokenOut) ==
    IF prevBalance > 0
    THEN LET currentBalance == prevBalance + tokenOut
             diff == currentBalance - prevBalance
         IN RoundTenths((diff * 1000) \div prevBalance)
    ELSE Null

\* What the market-data lookup of a pair answers: a pair record with or
\* without fdv, or nothing (the request or its JSON throws).  priceUsd is in
\* thousandths of a dollar, fdv and volume.h24 in millions of dollars.
MarketReplies == {"pair", "nofdv", "throws"}

\* The reply "decimals" is a pair record whose token carries a decimals field
\* that is no unit count; the other records carry none.
MarketPair(reply) ==
    [priceUsd |-> 2, symbol |-> "SYM",
     decimals |-> IF reply = "decimals" THEN 300 ELSE Undefined,
     fdv |-> IF reply = "pair" THEN 3 ELSE 0, volumeH24 |-> 4]

\* formatUnits accepts a whole number of decimals from 0 to 256 and throws
\* on anything else.
ValidDecimals(decimals) == decimals \in 0..256

\* const totalSupply = 1_000_000_000_000_000, in units of 10^9 tokens: a
\* thousandth of a dollar each makes a million dollars per unit.
TotalSupply == 1000000

\* priceUsd = raw ? 1 / raw : 0, in thousandths.
InvertPrice(raw) == IF raw = 0 THEN 0 ELSE (Milli * Milli) \div raw

\* A handler that would end the run when the lookup fails.
EnrichedOrAbort(run, tokenAddress, reply) ==
    [run EXCEPT !.market = reply, !.pc = IF reply = "throws" THEN "discarded" ELSE "price"]

\* The try / catch around the market-data lookup and the market cap estimate:
\* the locals keep their initial values when the lookup throws.
Enriched(run, tokenAddress, reply) ==
    IF reply = "throws"
    THEN [run EXCEPT !.market = reply, !.pc = "price"]
    ELSE LET p == MarketPair(reply)
             pool == PoolOf(run.pairAddress)
             isBase == SameAddress(pool.baseToken, tokenAddress)
             isQuote == SameAddress(pool.quoteToken, tokenAddress)
             priceUsd == IF isBase THEN p.priceUsd
                         ELSE IF isQuote THEN InvertPrice(p.priceUsd) ELSE 0
             marketCap == IF p.fdv = 0 /\ priceUsd > 0
                          THEN priceUsd * TotalSupply ELSE p.fdv
         IN [run EXCEPT !.market = reply, !.pc = "price",
                        !.priceUsd = priceUsd,
                        !.tokenSymbol = IF isBase \/ isQuote THEN p.symbol ELSE @,
                        !.tokenDecimals = IF (isBase \/ isQuote) /\ Truthy(p.decimals)
                                          THEN p.decimals ELSE @,
                        !.marketCap = marketCap,
                        !.volume24h = p.volumeH24]

\* What balanceOf(wallet, {blockTag}) answers: a balance, or it rejects.
BalanceReplies ==
    {[ok |-> FALSE, balance |-> 0]} \cup {[ok |-> TRUE, balance |-> b] : b \in {0, 2, 1000}}

\* A read at the block of the event itself, which holds the trade.
BlockTagOfEvent(blockNumber) == blockNumber

\* getPreviousBalance(chain, settings.tokenAddress, buyer, blockNumber - 1):
\* the blockTag of the balanceOf call.
BlockTag(blockNumber) == blockNumber - 1

\* getPreviousBalance: 0n without a runtime or when the read rejects.
GetPreviousBalance(rt, chain, reply) ==
    IF rt[chain] = 0 THEN 0
    ELSE IF reply.ok THEN reply.balance ELSE 0

\* A sender that would look at the image URL before the uploaded files.
ChooseMediaUrlFirst(animationFileId, imageFileId, imageUrl) ==
    IF imageUrl # NoText
    THEN IF EndsWith(LowerText(imageUrl), <<".", "g", "i", "f">>)
         THEN [method |-> "sendAnimation", media |-> imageUrl]
         ELSE [method |-> "sendPhoto", media |-> imageUrl]
    ELSE IF animationFileId # NoText
    THEN [method |-> "sendAnimation", media |-> animationFileId]
    ELSE IF imageFileId # NoText
    THEN [method |-> "sendPhoto", media |-> imageFileId]
    ELSE [method |-> "sendMessage", media |-> NoText]

\* The if / else if chain of the try block: which bot.telegram method is
\* called, and with which file id or URL.
ChooseMedia(animationFileId, imageFileId, imageUrl) ==
    IF animationFileId # NoText
    THEN [method |-> "sendAnimation", media |-> animationFileId]
    ELSE IF imageFileId # NoText
    THEN [method |-> "sendPhoto", media |-> imageFileId]
    ELSE IF imageUrl # NoText
    THEN IF EndsWith(LowerText(imageUrl), <<".", "g", "i", "f">>)
         THEN [method |-> "sendAnimation", media |-> imageUrl]
         ELSE [method |-> "sendPhoto", media |-> imageUrl]
    ELSE [method |-> "sendMessage", media |-> NoText]

\* Math.min(50, emojiCount)
MaxGlyphs == 50

\* The bar counted from the USD value itself.
GlyphsUnrounded(settings, usdValue) ==
    IF usdValue = NaN THEN 0
    ELSE LET per == IF Truthy(settings.dollarsPerEmoji)
                    THEN settings.dollarsPerEmoji ELSE 50 * Milli
             emojiCount == usdValue \div per
         IN IF emojiCount < MaxGlyphs THEN emojiCount ELSE MaxGlyphs

\* A bar that is not cut at fifty glyphs.
GlyphsUncapped(settings, usdValue) ==
    LET buyUsd == MathRound(usdValue)
        per == IF Truthy(settings.dollarsPerEmoji)
               THEN settings.dollarsPerEmoji ELSE 50 * Milli
    IN IF buyUsd = NaN THEN 0 ELSE (buyUsd * Milli) \div per

\* emojiCount = Math.floor(buyUsd / (settings.dollarsPerEmoji || 50)) and
\* settings.emoji.repeat(Math.min(50, emojiCount)): the number of glyphs.
\* Math.min(50, NaN) is NaN and repeat(NaN) the empty string.
Glyphs(settings, usdValue) ==
    LET buyUsd == MathRound(usdValue)
        per == IF Truthy(settings.dollarsPerEmoji)
               THEN settings.dollarsPerEmoji ELSE 50 * Milli
    IN IF buyUsd = NaN THEN 0
       ELSE LET emojiCount == (buyUsd * Milli) \div per
            IN IF emojiCount < MaxGlyphs THEN emojiCount ELSE MaxGlyphs

RunIds == (1..MaxEvents) \X TickSlots

NoRun == [pc |-> "none"]

\* The groups an event of the pool is related to, in Map order, each with the
\* settings object the Map holds at that moment.
RECURSIVE RelatedGroups(_, _, _)
RelatedGroups(order, chain, pairAddress) ==
    IF order = <<>> THEN <<>>
    ELSE LET g == Head(order)
             settings == heap[groupSettings[g]]
             rest == RelatedGroups(Tail(order), chain, pairAddress)
         IN IF settings.chain = chain /\ Includes(settings.allPairAddresses, pairAddress)
            THEN <<[group |-> g, oid |-> groupSettings[g]]>> \o rest
            ELSE rest

\* The tokens the subscription captured: token0/token1 of the pair, lowercased.
Tokens(pairAddress) ==
    [token0 |-> ToLowerCase(PoolOf(pairAddress).token0),
     token1 |-> ToLowerCase(PoolOf(pairAddress).token1)]

\* The classification with baseIn read from the tracked token's own side.
ClassifySwapped(tokens, tokenAddress, amounts) ==
    LET isToken0 == tokens.token0 = ToLowerCase(tokenAddress)
        isToken1 == tokens.token1 = ToLowerCase(tokenAddress)
        baseIn == IF isToken0 THEN amounts.amount0In ELSE amounts.amount1In
        tokenOut == IF isToken0 THEN amounts.amount0Out ELSE amounts.amount1Out
    IN [buy |-> (isToken0 \/ isToken1) /\ ~(baseIn <= 0 \/ tokenOut <= 0),
        baseIn |-> baseIn, tokenOut |-> tokenOut]

\* isToken0 / isToken1, baseIn / tokenOut, and the "not a buy" test.
Classify(tokens, tokenAddress, amounts) ==
    LET isToken0 == tokens.token0 = ToLowerCase(tokenAddress)
        isToken1 == tokens.token1 = ToLowerCase(tokenAddress)
        baseIn == IF isToken0 THEN amounts.amount1In ELSE amounts.amount0In
        tokenOut == IF isToken0 THEN amounts.amount0Out ELSE amounts.amount1Out
    IN [buy |-> (isToken0 \/ isToken1) /\ ~(baseIn <= 0 \/ tokenOut <= 0),
        baseIn |-> baseIn, tokenOut |-> tokenOut]

\* handleSwap from the classification to the await of the market-data fetch.
Classified(run, hp) ==
    LET c == Classify(run.tokens, hp[run.related[1].oid].tokenAddress, run.amounts)
    IN IF c.buy
       THEN [run EXCEPT !.pc = "market", !.baseIn = c.baseIn, !.tokenOut = c.tokenOut,
                        !.baseAmount = FormatUnits(c.baseIn, 18)]
       ELSE [run EXCEPT !.pc = "discarded"]

\* handleSwap from its entry to its first await.  market, balance, sends and
\* failed are history: how the lookups ended, the gateway calls made for the
\* group at hand, the groups whose call rejected.
Arrived(ev, li, chain, pairAddress, amounts) ==
    LET related == RelatedGroups(groupOrder, chain, pairAddress)
        run == [pc |-> "entry", ev |-> ev, li |-> li, chain |-> chain,
                pairAddress |-> pairAddress, tokens |-> Tokens(pairAddress),
                amounts |-> amounts, related |-> related,
                baseIn |-> 0, tokenOut |-> 0, baseAmount |-> 0,
                priceUsd |-> 0, marketCap |-> 0, volume24h |-> 0,
                tokenSymbol |-> "TOKEN", tokenDecimals |-> 18,
                nativePriceUsd |-> 0, usdValue |-> 0, tokenAmount |-> 0,
                prevBalance |-> 0, positionIncrease |-> Null, gi |-> 0,
                market |-> "none", balance |-> "none", blockTag |-> Null,
                sends |-> 0, failed |-> {}]
    IN IF related = <<>> THEN [run EXCEPT !.pc = "unrelated"]
       ELSE IF Len(heap[related[1].oid].allPairAddresses) <= 1
       THEN [run EXCEPT !.pc = "autofill"]
       ELSE Classified(run, heap)

\* A handler that would empty the registry of its chain.
HandlerUnchangedButPairs ==
    /\ UNCHANGED <<probe, defaultChain, groupSettings, groupOrder, groupSetupStates,
                   pendingToken, setups, runtimes, listeners, providers,
                   connFailed>>
    /\ pairs' = [c \in KnownChains |-> {}]

\* handleSwap, getPreviousBalance and sendPremiumBuyAlert assign none of these.
HandlerUnchanged ==
    UNCHANGED <<probe, defaultChain, groupSettings, groupOrder, groupSetupStates,
                pendingToken, setups, runtimes, pairs, listeners, providers,
                connFailed>>

\* The chain emits a Swap of the pool: every callback attached for it runs
\* handleSwap up to its first await.
EmitSwap(chain, pairAddress, amounts) ==
    /\ events < MaxEvents
    /\ runtimes[chain] # 0
    /\ chain \notin connFailed
    /\ listeners[chain][pairAddress] > 0
    /\ events' = events + 1
    /\ runsOf' = [runsOf EXCEPT ![events + 1] = listeners[chain][pairAddress]]
    /\ handlers' =
          [id \in RunIds |->
              IF id[1] = events + 1 /\ id[2] <= listeners[chain][pairAddress]
              THEN Arrived(id[1], id[2], chain, pairAddress, amounts)
              ELSE handlers[id]]
    /\ UNCHANGED <<heap, gateway, inRow>>
    /\ UNCHANGED ticks
    /\ HandlerUnchanged

\* getAllValidPairs answered in handleSwap: the first related group's pool set
\* is replaced when the answer is not empty.  Then the classification.
HandlerAutofilled(id, ok) ==
    /\ handlers[id].pc = "autofill"
    /\ LET run == handlers[id]
           oid == run.related[1].oid
           valid == GetAllValidPairs(heap[oid].tokenAddress, ok)
           hp == IF valid # <<>>
                 THEN [heap EXCEPT ![oid].allPairAddresses = Addresses(valid)]
                 ELSE heap
       IN /\ heap' = hp
          /\ ticks' = IF hp = heap THEN ticks ELSE Touched(ticks)
          /\ inRow' = (inRow /\ hp = heap)
          /\ handlers' = [handlers EXCEPT ![id] = Classified(run, hp)]
    /\ UNCHANGED <<events, runsOf, gateway>>
    /\ HandlerUnchanged

\* The market-data fetch for the pair answered or failed.
HandlerMarket(id, reply) ==
    /\ handlers[id].pc = "market"
    /\ handlers' =
          [handlers EXCEPT
              ![id] = Enriched(handlers[id],
                               heap[handlers[id].related[1].oid].tokenAddress, reply)]
    /\ UNCHANGED <<heap, events, runsOf, gateway, inRow>>
    /\ UNCHANGED ticks
    /\ HandlerUnchanged

\* handleSwap throws outside its try blocks: its promise rejects.  The Swap
\* callback neither awaits the promise nor attaches a catch, and no
\* unhandledRejection handler is installed: the rejection is unhandled.
Rejected(run) == [run EXCEPT !.pc = "unhandled"]

\* getNativePrice answered: usdValue = baseAmount * nativePriceUsd, and
\* tokenAmount = parseFloat(formatUnits(tokenOut, tokenDecimals)), which
\* throws on decimals that are no unit count; then getPreviousBalance runs up
\* to its await and, with a runtime for the chain, issues balanceOf with its
\* blockTag.
HandlerPriced(id, reply) ==
    /\ handlers[id].pc = "price"
    /\ LET run == handlers[id]
           nativePriceUsd == GetNativePrice(run.chain, reply)
           priced == [run EXCEPT !.nativePriceUsd = nativePriceUsd,
                                 !.usdValue = Times(run.baseAmount, nativePriceUsd)]
       IN handlers' =
             [handlers EXCEPT
                 ![id] = IF ~ValidDecimals(run.tokenDecimals)
                         THEN Rejected(priced)
                         ELSE [priced EXCEPT
                                  !.pc = "balance",
                                  !.tokenAmount =
                                     FormatUnits(run.tokenOut, run.tokenDecimals),
                                  !.blockTag =
                                     IF runtimes[run.chain] = 0 THEN Null
                                     ELSE BlockTag(run.amounts.blockNumber)]]
    /\ UNCHANGED <<heap, events, runsOf, gateway, inRow>>
    /\ UNCHANGED ticks
    /\ HandlerUnchanged

\* const buyUsd = Math.round(usdValue); the min / max filter.
Filtered(settings, usdValue) ==
    LET buyUsd == MathRound(usdValue)
    IN \/ Less(Times(buyUsd, Milli), settings.minBuyUsd)
       \/ Truthy(settings.maxBuyUsd) /\ Greater(Times(buyUsd, Milli), settings.maxBuyUsd)

\* The for-of over relatedGroups from index gi on, up to the next await: the
\* pool lookup of the first group whose filter lets the alert through.
RECURSIVE Dispatch(_, _)
Dispatch(run, gi) ==
    IF gi > Len(run.related) THEN [run EXCEPT !.pc = "done", !.gi = gi, !.sends = 0]
    ELSE IF Filtered(heap[run.related[gi].oid], run.usdValue)
    THEN Dispatch(run, gi + 1)
    ELSE [run EXCEPT !.gi = gi, !.sends = 0,
                     !.pc = IF heap[run.related[gi].oid].allPairAddresses # <<>>
                            THEN "lp" ELSE "send"]

\* A headline chosen from the USD value itself.
HeaderLineUnrounded(usdValue) ==
    IF usdValue = NaN THEN "new buy"
    ELSE IF usdValue >= 5000 * Milli THEN "whale"
    ELSE IF usdValue >= 3000 * Milli THEN "big buy"
    ELSE IF usdValue >= 1000 * Milli THEN "strong buy"
    ELSE "new buy"

\* headerLine: the nested conditional on buyUsd = Math.round(usdValue).  Every
\* comparison with NaN is false, which leaves the last branch.
HeaderLine(usdValue) ==
    LET buyUsd == MathRound(usdValue)
    IN IF buyUsd = NaN THEN "new buy"
       ELSE IF buyUsd >= 5000 THEN "whale"
       ELSE IF buyUsd >= 3000 THEN "big buy"
       ELSE IF buyUsd >= 1000 THEN "strong buy"
       ELSE "new buy"

\* The bot.telegram call of the try block for the group at hand: the method
\* chosen, the file id or URL, and the emoji bar of the caption.  The settings
\* objects the wizard builds have no animationFileId and no imageFileId.
Call(run) ==
    LET settings == heap[run.related[run.gi].oid]
        chosen == ChooseMedia(NoText, NoText, settings.imageUrl)
    IN [ev |-> run.ev, li |-> run.li, group |-> run.related[run.gi].group,
        nth |-> run.sends + 1,
        method |-> chosen.method, media |-> chosen.media,
        headline |-> HeaderLine(run.usdValue),
        glyphs |-> Glyphs(settings, run.usdValue)]

\* The run with its gateway call made.
Calling(run) == [run EXCEPT !.pc = "send", !.sends = @ + 1]

\* After the loop has moved: the call of a group that needs no pool lookup.
Sending(run) == IF run.pc = "send" THEN Calling(run) ELSE run

\* getPreviousBalance answered; the loop over the related groups starts.
HandlerBalance(id, reply) ==
    /\ handlers[id].pc = "balance"
    /\ LET prevBalance == GetPreviousBalance(runtimes, handlers[id].chain, reply)
           read == [handlers[id] EXCEPT
                       !.balance = IF reply.ok THEN "ok" ELSE "throws",
                       !.prevBalance = prevBalance,
                       !.positionIncrease =
                          PositionIncrease(prevBalance, handlers[id].tokenOut)]
           run == Dispatch(read, 1)
       IN /\ handlers' = [handlers EXCEPT ![id] = Sending(run)]
          /\ gateway' = IF run.pc = "send" THEN gateway \cup {Call(run)} ELSE gateway
    /\ UNCHANGED <<heap, events, runsOf, inRow>>
    /\ UNCHANGED ticks
    /\ HandlerUnchanged

\* getAllValidPairs answered in sendPremiumBuyAlert; the gateway is called.
HandlerLp(id) ==
    /\ handlers[id].pc = "lp"
    /\ handlers' = [handlers EXCEPT ![id] = Calling(handlers[id])]
    /\ gateway' = gateway \cup {Call(handlers[id])}
    /\ UNCHANGED <<heap, events, runsOf, inRow>>
    /\ UNCHANGED ticks
    /\ HandlerUnchanged

\* A sender that would call the gateway once more after a rejected call.
AfterSendRetry(run, ok) ==
    IF ~ok /\ run.sends = 1
    THEN [run EXCEPT !.pc = "lp"]
    ELSE Dispatch([run EXCEPT !.failed = IF ok THEN @ ELSE @ \cup {run.gi}], run.gi + 1)

\* The try / catch around the gateway call: resolved or rejected (caught and
\* logged), sendPremiumBuyAlert returns and the loop goes to the next group.
AfterSend(run, ok) ==
    Dispatch([run EXCEPT !.failed = IF ok THEN @ ELSE @ \cup {run.gi}], run.gi + 1)

\* The gateway call resolved or rejected.
HandlerSent(id, ok) ==
    /\ handlers[id].pc = "send"
    /\ LET run == AfterSend(handlers[id], ok)
       IN /\ handlers' = [handlers EXCEPT ![id] = Sending(run)]
          /\ gateway' = IF run.pc = "send" THEN gateway \cup {Call(run)} ELSE gateway
    /\ UNCHANGED <<heap, events, runsOf, inRow>>
    /\ UNCHANGED ticks
    /\ HandlerUnchanged

\* The swap pipeline with the inputs drawn from the given sets.
Pipeline(amountSet, marketSet, balanceSet, sendSet) ==
    \/ \E chain \in ConfiguredChains, addr \in LowerPools, amounts \in amountSet :
          EmitSwap(chain, addr, amounts)
    \/ \E id \in RunIds, ok \in BOOLEAN : HandlerAutofilled(id, ok)
    \/ \E id \in RunIds, reply \in marketSet : HandlerMarket(id, reply)
    \/ \E id \in RunIds, reply \in PriceReplies : HandlerPriced(id, reply)
    \/ \E id \in RunIds, reply \in balanceSet : HandlerBalance(id, reply)
    \/ \E id \in RunIds : HandlerLp(id)
    \/ \E id \in RunIds, ok \in sendSet : HandlerSent(id, ok)

Swaps == Pipeline(SwapAmounts, MarketReplies, BalanceReplies, BOOLEAN)

----------------------------------------------------------------------------
(* Specifications *)

\* The tracker and the wizard after the modules are loaded, before any timer
\* or message.
InitState ==
    /\ heap = [o \in 1..MaxSetups |-> NoConfig]
    /\ groupSettings = [g \in Groups |-> 0]
    /\ groupOrder = <<>>
    /\ groupSetupStates = [g \in Groups |-> NoState]
    /\ pendingToken = {}
    /\ setups = 0
    /\ runtimes = [c \in KnownChains |-> 0]
    /\ pairs = [c \in KnownChains |-> {}]
    /\ listeners = [c \in KnownChains |-> [a \in LowerPools |-> 0]]
    /\ providers = [c \in KnownChains |-> 0]
    /\ connFailed = {}
    /\ ticks = [t \in TickSlots |-> Idle]
    /\ handlers = [id \in RunIds |-> NoRun]
    /\ events = 0
    /\ runsOf = [e \in 1..MaxEvents |-> 0]
    /\ gateway = {}
    /\ inRow = FALSE

\* The program with a config.json whose defaultChain has an entry in chains.
InitProgram == defaultChain \in ConfiguredChains /\ InitState

\* No helper call is looked at on its own.
NoProbe == [fn |-> "none"]

Init == InitProgram /\ probe = NoProbe

\* What the wizard stores in the runs of the resync specification: one token,
\* found by discovery or given by hand in lowercase.
SyncFinals ==
    WizardFinals(defaultChain, {TokenA}, {<<"P1", "lc">>}, {50 * Milli}, {Undefined},
                 {50 * Milli})

\* The wizard and the resync loop; no swap events.
NextSync ==
    \/ \E chat \in Groups, final \in SyncFinals : StoreSettings(chat, final)
    \/ Resync

SpecSync == Init /\ [][NextSync]_vars

\* The same with connections that can fail.
NextConn ==
    \/ NextSync
    \/ \E chain \in ConfiguredChains : ConnectionFails(chain)

SpecConn == Init /\ [][NextConn]_vars

\* The resync loop one call at a time, with the timer firing again and again,
\* every read answered, and a read that is made again and again succeeding
\* in the end.
NextRetry ==
    \/ \E chat \in Groups, final \in SyncFinals : StoreSettings(chat, final)
    \/ \E t \in {1} : TickStart(t)
    \/ \E t \in TickSlots : TickResolved(t)
    \/ \E t \in TickSlots : TickRejected(t)
    \/ \E t \in TickSlots, ok \in BOOLEAN : TickRetry0(t, ok)
    \/ \E t \in TickSlots, ok \in BOOLEAN : TickRetry1(t, ok)
    \/ \E t \in TickSlots : TickReturn(t)

SpecRetry ==
    /\ Init
    /\ [][NextRetry]_vars
    /\ WF_vars(\E t \in {1} : TickStart(t))
    /\ WF_vars(\E t \in TickSlots : TickReturn(t))
    /\ SF_vars(\E t \in TickSlots : TickResolved(t))
    /\ WF_vars(\E t \in TickSlots : TickResolved(t) \/ TickRejected(t))
    /\ WF_vars(\E t \in TickSlots, ok \in BOOLEAN : TickRetry0(t, ok))
    /\ WF_vars(\E t \in TickSlots, ok \in BOOLEAN : TickRetry1(t, ok))

\* What the wizard stores in the runs of the swap specification: token A with
\* or without a maximum, its pools discovered or pool 3 given by hand; token B
\* with its pool discovered or pool 1, which does not trade it, given by hand.
SwapFinals ==
    WizardFinals(defaultChain, {TokenA}, {<<"P3", "cs">>}, {50 * Milli},
                 {Undefined, 100 * Milli}, {50 * Milli})
    \cup WizardFinals(defaultChain, {TokenB}, {<<"P1", "lc">>}, {50 * Milli},
                      {Undefined}, {50 * Milli})

\* The wizard run once in each group, the resync loop one call at a time, and
\* the swap pipeline.
NextSwap ==
    \/ \E chat \in Groups, final \in SwapFinals :
          chat = setups + 1 /\ StoreSettings(chat, final)
    \/ \E t \in {1} : TickStart(t)
    \/ \E t \in TickSlots : TickResolved(t)
    \/ \E t \in TickSlots : TickReturn(t)
    \/ Pipeline(SwapAmounts, {"throws"}, {[ok |-> FALSE, balance |-> 0]}, {TRUE})

SpecSwap == Init /\ [][NextSwap]_vars

\* The wizard alone, message by message.
SpecWizard == Init /\ [][Wizard]_vars

\* What the wizard stores for a group is one of the settings objects
\* StoreSettings draws from, as long as no token answer arrives while another
\* one is awaiting fetchTokenPairs (MaxPending = 1).
WizardStoresFinals ==
    \A g \in Groups :
        groupSettings[g] # 0 =>
            heap[groupSettings[g]] \in
                WithImages(WizardFinals(defaultChain, TokenTexts, PairTexts,
                                        MinBuyTexts, MaxBuyTexts, PerEmojiTexts),
                           ImageTexts)

\* The whole program: the wizard message by message, overlapping resync
\* calls, failing connections and the swap pipeline.
Next ==
    \/ Wizard
    \/ Resync
    \/ \E t \in TickSlots, ok \in BOOLEAN : TickDiscovered(t, ok)
    \/ \E chain \in ConfiguredChains : ConnectionFails(chain)
    \/ Swaps

Spec == Init /\ [][Next]_vars

\* A swap pipeline small enough to run under overlapping resync calls: one
\* stored configuration per group, swaps that pay the quote asset of the main
\* pool in.
DupFinals ==
    {f \in WizardFinals(defaultChain, {TokenA}, {<<"P1", "lc">>}, {50 * Milli},
                        {Undefined}, {50 * Milli}) : Len(f.allPairAddresses) > 1}

DupAmounts ==
    {a \in SwapAmounts : a.amount0In = 0 /\ a.amount1Out = 0 /\ a.amount1In # 167}

NextDup ==
    \/ \E chat \in Groups, final \in DupFinals : StoreSettings(chat, final)
    \/ \E t \in TickSlots : TickStart(t)
    \/ \E t \in TickSlots : TickResolved(t)
    \/ \E t \in TickSlots : TickReturn(t)
    \/ \E chain \in ConfiguredChains, addr \in LowerPools, amounts \in DupAmounts :
          EmitSwap(chain, addr, amounts)
    \/ \E id \in RunIds : HandlerMarket(id, "throws")
    \/ \E id \in RunIds, reply \in PriceReplies : HandlerPriced(id, reply)
    \/ \E id \in RunIds : HandlerBalance(id, [ok |-> FALSE, balance |-> 0])
    \/ \E id \in RunIds : HandlerLp(id)
    \/ \E id \in RunIds : HandlerSent(id, TRUE)

SpecDup == Init /\ [][NextDup]_vars

----------------------------------------------------------------------------
(* Properties of the resync loop *)

Running == {t \in TickSlots : ticks[t].pc # "idle"}

\* C1: for every chain and lowercase pool address there is exactly one swap
\* listener when the registry holds a subscription for it, and none otherwise,
\* whatever resync calls ran or overlapped.
C1_OneListenerPerPool ==
    \A c \in ConfiguredChains, a \in LowerPools :
        listeners[c][a] = IF a \in pairs[c] THEN 1 ELSE 0

\* C5: there is at most one provider per chain, and the runtime of a chain is
\* the first one constructed for it: later and overlapping resync calls reuse it.
C5_OneProviderPerChain ==
    \A c \in ConfiguredChains : providers[c] <= 1 /\ runtimes[c] = providers[c]

\* Two overlapping resync calls both read pools of the chain through its one provider.
C5_Witness ==
    /\ \A t \in TickSlots : ticks[t].pc = "resolve"
    /\ providers[defaultChain] = 1

\* C6: when a resync call that began after a chain's connection failed has
\* run to its end, the chain has a working connection again.
C6_ReconnectsOnNextTick ==
    \A t \in Running :
        ticks[t].pc = "done" => \A c \in ticks[t].failedAtStart : c \notin connFailed

\* The pools of the stored pool sets from the loop position of the call on
\* that have no registry entry.
Remaining(t) ==
    LET st == ticks[t]
    IN ({ToLowerCase(st.pools[k]) : k \in {k \in 1..Len(st.pools) : k > st.pi}}
        \cup UNION {{ToLowerCase(a) : a \in
                        {heap[groupSettings[groupOrder[j]]].allPairAddresses[k] :
                            k \in 1..Len(heap[groupSettings[groupOrder[j]]].allPairAddresses)}} :
                    j \in {j \in 1..Len(groupOrder) : j > st.gi}})
       \ pairs[defaultChain]

\* The pools of all stored pool sets, lowercased.
StoredPools ==
    UNION {{ToLowerCase(PoolSets[g][k]) : k \in 1..Len(PoolSets[g])} : g \in Groups}

C7_NoMarker ==
    \A t \in Running :
        \A v \in ticks[t].gaveUp :
            v.addr \in pairs[defaultChain] => listeners[defaultChain][v.addr] > 0

C7_EveryTickAttempts ==
    \A t \in Running :
        ticks[t].pc = "done" /\ ticks[t].clean =>
            StoredPools \subseteq pairs[defaultChain] \cup ticks[t].calls

C7_Subscribed ==
    \A t \in Running :
        \A v \in ticks[t].attached :
            v.addr \in pairs[defaultChain] /\ listeners[defaultChain][v.addr] > 0

C7_FailureStep ==
    \A t \in TickSlots :
        (ticks[t].pc \in {"resolve", "retry1"} /\ ticks'[t].pc # "idle"
         /\ ticks'[t].gaveUp # ticks[t].gaveUp)
        => /\ pairs' = pairs
           /\ listeners' = listeners
           /\ Remaining(t) # {} => ticks'[t].pc = "resolve"

\* C7: a failed token0/token1 read records nothing for the pool (the registry
\* and the listeners are as before), the call goes on to the next pool without
\* an entry, a call that ran to its end under unchanged settings has read every
\* stored pool that has no entry, and a read that succeeds subscribes the pool;
\* a stored pool is subscribed in the end while it stays stored.
C7_FailedPoolRetried ==
    /\ [](C7_NoMarker /\ C7_EveryTickAttempts /\ C7_Subscribed)
    /\ [][C7_FailureStep]_vars
    /\ \A a \in LowerPools :
          (a \in StoredPools) ~> (a \in pairs[defaultChain] \/ a \notin StoredPools)

\* A call that directly follows a finished one, with nothing stored in between,
\* has subscribed a pool: the read the earlier call made for it had failed.
C7_Witness ==
    \E t \in Running : ticks[t].second /\ ticks[t].clean /\ ticks[t].attached # {}

C9_SecondRunIdle ==
    \A t \in Running :
        ticks[t].second /\ ticks[t].clean =>
            /\ PoolSets = ticks[t].setsAtStart
            /\ ticks[t].calls = {}
            /\ ticks[t].attached = {}

\* C9 as the code has it: such a call leaves the pool sets as they were, and
\* reads and attaches only pools that had no registry entry when it began.
C9_SecondRunSkipsSubscribed ==
    \A t \in Running :
        ticks[t].second /\ ticks[t].clean =>
            /\ PoolSets = ticks[t].setsAtStart
            /\ ticks[t].calls \cap ticks[t].pairsAtStart[defaultChain] = {}
            /\ \A v \in ticks[t].attached : v.addr \notin ticks[t].pairsAtStart[defaultChain]

\* A second call in a row has run to its end with every stored pool subscribed
\* before it began.
C9_Witness ==
    \E t \in Running :
        /\ ticks[t].pc = "done" /\ ticks[t].second /\ ticks[t].clean
        /\ StoredPools # {}
        /\ StoredPools \subseteq ticks[t].pairsAtStart[defaultChain]

----------------------------------------------------------------------------
(* Properties of the swap pipeline *)

Runs == {id \in RunIds : handlers[id].pc # "none"}

\* The gateway was called for the i-th related group of the run.
Called(run, i) ==
    \E c \in gateway :
        c.ev = run.ev /\ c.li = run.li /\ c.group = run.related[i].group

\* The run is through with its i-th related group.
Past(run, i) ==
    \/ run.pc = "done"
    \/ run.pc = "send" /\ i <= run.gi
    \/ run.pc = "lp" /\ i < run.gi

\* C2: an event causes at most one handleSwap call, and no group is sent two
\* alerts for it.
C2_OneRunPerEvent ==
    \A e \in 1..MaxEvents :
        /\ runsOf[e] <= 1
        /\ \A g \in Groups : Cardinality({c \in gateway : c.ev = e /\ c.group = g}) <= 1

\* The band as stated: the USD value itself is at least minBuyUsd and, with a
\* maximum set, at most maxBuyUsd.
C3_InBand(settings, usdValue) ==
    /\ usdValue >= settings.minBuyUsd
    /\ settings.maxBuyUsd = Undefined \/ usdValue <= settings.maxBuyUsd

\* The band as the code has it: the USD value rounded to whole dollars is not
\* below minBuyUsd and, with a maximum set, not above maxBuyUsd.  A value that
\* is not a number is below and above nothing.
C3_RoundedInBand(settings, usdValue) ==
    \/ usdValue = NaN
    \/ LET shown == ((2 * usdValue + Milli) \div (2 * Milli)) * Milli
       IN /\ ~(shown < settings.minBuyUsd)
          /\ settings.maxBuyUsd = Undefined \/ ~(shown > settings.maxBuyUsd)

C4_Side(run) ==
    LET tracked == heap[run.related[1].oid].tokenAddress
        pool == PoolOf(run.pairAddress)
    IN IF SameAddress(pool.token0, tracked) THEN 0
       ELSE IF SameAddress(pool.token1, tracked) THEN 1 ELSE 2

C4_BaseIn(run) ==
    IF C4_Side(run) = 0 THEN run.amounts.amount1In ELSE run.amounts.amount0In

C4_TrackedOut(run) ==
    IF C4_Side(run) = 0 THEN run.amounts.amount0Out ELSE run.amounts.amount1Out

C4_IsBuy(run) == C4_Side(run) # 2 /\ C4_BaseIn(run) > 0 /\ C4_TrackedOut(run) > 0

\* C4: a run goes on past the classification exactly when one pool asset is
\* the tracked token, base-asset-in > 0 and tracked-token-out > 0, and then
\* with those two amounts; every other run is discarded and calls no gateway.
C4_BuyIffTrackedOutForBaseIn ==
    \A id \in Runs :
        LET run == handlers[id]
        IN run.pc \notin {"unrelated", "autofill"} =>
              /\ run.pc = "discarded" <=> ~C4_IsBuy(run)
              /\ run.pc = "discarded" => \A c \in gateway : <<c.ev, c.li>> # id
              /\ run.pc # "discarded" =>
                    run.baseIn = C4_BaseIn(run) /\ run.tokenOut = C4_TrackedOut(run)

\* A buy on a pool whose second asset is the tracked token was sent to a group.
C4_Witness ==
    \E id \in Runs :
        LET run == handlers[id]
        IN /\ run.pc = "done"
           /\ C4_Side(run) = 1
           /\ \E i \in 1..Len(run.related) : Called(run, i)

\* C10: the pool set of every stored configuration contains its main pair.
C10_MainPairInPoolSet ==
    \A g \in Groups :
        groupSettings[g] # 0 =>
            Includes(heap[groupSettings[g]].allPairAddresses,
                     heap[groupSettings[g]].pairAddress)

----------------------------------------------------------------------------
(* Who writes a stored pool set *)

\* The settings a wizard stores hold the main pair as their whole pool set.
C11_WizardSeedsMainPairOnly ==
    [][setups' # setups =>
          heap'[setups'].allPairAddresses = <<heap'[setups'].pairAddress>>]_vars

\* C11: the pool set of a stored settings object is never assigned by a step
\* of the swap pipeline (handleSwap, sendPremiumBuyAlert).
C11_OnlyResyncWritesPoolSet ==
    [][\A o \in 1..MaxSetups :
          (heap[o] # NoConfig /\ heap'[o] # NoConfig
           /\ heap'[o].allPairAddresses # heap[o].allPairAddresses)
          => handlers' = handlers]_vars

----------------------------------------------------------------------------
(* Discovery on its own: the pool list built from one upstream reply *)

\* Replies of the upstream for token A: three pools in any order, each with a
\* liquidity below the floor of the resync loop or one of two above it.
SortIds == {"P1", "P2", "P3"}
SortLiquidities == {500, 2000, 50000}

SortPool(id, liq) ==
    [pairAddress |-> <<id, "cs">>, baseToken |-> TokenA, quoteToken |-> TokenW,
     token0 |-> TokenA, token1 |-> TokenW, liquidityUsd |-> liq]

SortReplies ==
    {<<SortPool(i1, l1), SortPool(i2, l2), SortPool(i3, l3)>> :
        <<i1, i2, i3>> \in {t \in SortIds \X SortIds \X SortIds :
                               t[1] # t[2] /\ t[1] # t[3] /\ t[2] # t[3]},
        <<l1, l2, l3>> \in SortLiquidities \X SortLiquidities \X SortLiquidities}

InitSort ==
    /\ InitProgram
    /\ probe \in {[fn |-> "sort", reply |-> r, by |-> "none", out |-> <<>>,
                   main |-> NoAddress] : r \in SortReplies}

ProbeUnchanged ==
    UNCHANGED <<defaultChain, heap, groupSettings, groupOrder, groupSetupStates,
                pendingToken, setups, runtimes, pairs, listeners, providers,
                connFailed, ticks, handlers, events, runsOf, gateway, inRow>>

\* case "token" of the wizard for the reply: sortPairsByLiquidity, main = sorted[0].
SortInWizard ==
    /\ probe.fn = "sort" /\ probe.by = "none"
    /\ LET prs == TokenPairsOf(probe.reply, TokenA)
           st == AfterTokenPairs(NewState(0, defaultChain), TokenA, prs)
       IN probe' = [probe EXCEPT !.by = "wizard",
                                 !.out = sortPairsByLiquidity(prs),
                                 !.main = st.pairAddress]
    /\ ProbeUnchanged

\* getAllValidPairs of the resync loop and of handleSwap for the reply; the
\* callers assign the pool set and leave pairAddress as it is.
SortInResync ==
    /\ probe.fn = "sort" /\ probe.by = "none"
    /\ probe' = [probe EXCEPT !.by = "resync",
                              !.out = ValidPairsOf(probe.reply, TokenA)]
    /\ ProbeUnchanged

NextSort == SortInWizard \/ SortInResync

SpecSort == InitSort /\ [][NextSort]_vars

\* String order of the pool addresses.
C12_AddressBefore(a, b) ==
    LET rank == [id \in SortIds |-> CASE id = "P1" -> 1 [] id = "P2" -> 2 [] OTHER -> 3]
    IN rank[a[1]] < rank[b[1]]

\* C12: a pool list built by discovery is ordered by descending liquidity,
\* pools of equal liquidity by address string, whatever order the upstream
\* replied in; the list the wizard builds starts with the main pair.
C12_SortedByLiquidityThenAddress ==
    probe.fn = "sort" /\ probe.by # "none" =>
        /\ \A i, j \in 1..Len(probe.out) :
              i < j =>
                 \/ probe.out[i].liquidityUsd > probe.out[j].liquidityUsd
                 \/ /\ probe.out[i].liquidityUsd = probe.out[j].liquidityUsd
                    /\ C12_AddressBefore(probe.out[i].pairAddress, probe.out[j].pairAddress)
        /\ probe.by = "wizard" /\ probe.out # <<>> =>
              probe.main = probe.out[1].pairAddress

----------------------------------------------------------------------------
(* The position increase on its own *)

\* Balances before the trade and raw token-out amounts of a buy.
PrevBalances == 0..MaxBalance \cup {1000}
TokenOuts == 1..MaxBalance \cup {500}

InitPosition ==
    /\ InitProgram
    /\ probe \in {[fn |-> "position", pre |-> pre, out |-> out, done |-> FALSE,
                   result |-> Null] : pre \in PrevBalances, out \in TokenOuts}

\* handleSwap's computation for the balance getPreviousBalance returned.
ComputePositionIncrease ==
    /\ probe.fn = "position" /\ ~probe.done
    /\ probe' = [probe EXCEPT !.done = TRUE,
                              !.result = PositionIncrease(probe.pre, probe.out)]
    /\ ProbeUnchanged

NextPosition == ComputePositionIncrease

SpecPosition == InitPosition /\ [][NextPosition]_vars

\* C13: the position increase is null when the balance before the trade is 0,
\* and otherwise, with post = pre + token-out, it is 100 * (post - pre) / pre
\* rounded to the nearest whole number (halves up).
C13_PositionIncreaseRounded ==
    probe.fn = "position" /\ probe.done =>
        LET pre == probe.pre
            post == probe.pre + probe.out
        IN IF pre = 0 THEN probe.result = Null
           ELSE probe.result = (200 * (post - pre) + pre) \div (2 * pre)

\* The documented example: pre = 1000, post = 1500 gives 50.
C13_Witness ==
    /\ probe.fn = "position" /\ probe.done
    /\ probe.pre = 1000 /\ probe.pre + probe.out = 1500 /\ probe.result = 50

----------------------------------------------------------------------------
(* The alert pipeline with every lookup able to fail *)

\* What the wizard stores in the runs of the alert specification: token A
\* with its pools discovered, with or without a maximum, one or fifty dollars
\* per emoji, with or without an image URL.
AlertFinals ==
    WithImages({f \in WizardFinals(defaultChain, {TokenA}, {<<"P1", "lc">>},
                                   {50 * Milli}, {Undefined, 100 * Milli},
                                   {1 * Milli, 50 * Milli}) :
                   Len(f.allPairAddresses) > 1},
               ImageTexts)

\* Buys of token A on its main pool: the quote asset in, the token out.
AlertAmounts ==
    {[amount0In |-> 0, amount1In |-> 83, amount0Out |-> 7, amount1Out |-> 0,
      blockNumber |-> 21],
     [amount0In |-> 0, amount1In |-> 367, amount0Out |-> 7, amount1Out |-> 0,
      blockNumber |-> 8]}

\* The wizard run once in each group, the resync loop one call at a time, and
\* the swap pipeline with lookups and gateway calls that can fail.
NextAlert ==
    \/ \E chat \in Groups, final \in AlertFinals :
          chat = setups + 1 /\ StoreSettings(chat, final)
    \/ \E t \in {1} : TickStart(t)
    \/ \E t \in TickSlots : TickResolved(t)
    \/ \E t \in TickSlots : TickReturn(t)
    \/ \E chain \in ConfiguredChains, addr \in LowerPools, amounts \in AlertAmounts :
          EmitSwap(chain, addr, amounts)
    \/ \E id \in RunIds, reply \in MarketReplies : HandlerMarket(id, reply)
    \/ \E id \in RunIds, reply \in PriceReplies : HandlerPriced(id, reply)
    \/ \E id \in RunIds, reply \in BalanceReplies : HandlerBalance(id, reply)
    \/ \E id \in RunIds : HandlerLp(id)
    \/ \E id \in RunIds, ok \in BOOLEAN : HandlerSent(id, ok)

SpecAlert == Init /\ [][NextAlert]_vars

\* The run a gateway call belongs to, and the settings it was made with.
RunOf(c) == handlers[<<c.ev, c.li>>]

SettingsOf(c) ==
    LET run == RunOf(c)
        i == CHOOSE i \in 1..Len(run.related) : run.related[i].group = c.group
    IN heap[run.related[i].oid]

Min(a, b) == IF a < b THEN a ELSE b

\* C14 as stated, for USD values that are numbers: the bar of every gateway
\* call has min(50, floor(usdValue / dollarsPerEmoji)) glyphs.
C14_GlyphsOfUsdValue ==
    \A c \in gateway :
        RunOf(c).usdValue # NaN =>
            c.glyphs = Min(50, RunOf(c).usdValue \div SettingsOf(c).dollarsPerEmoji)

\* C14 as the code has it: the bar has min(50, floor(round(usdValue) /
\* dollarsPerEmoji)) glyphs, and none when the USD value is not a number.
C14_GlyphsOfRoundedUsdValue ==
    \A c \in gateway :
        LET usdValue == RunOf(c).usdValue
            shown == ((2 * usdValue + Milli) \div (2 * Milli)) * Milli
        IN c.glyphs = IF usdValue = NaN THEN 0
                      ELSE Min(50, shown \div SettingsOf(c).dollarsPerEmoji)

\* One buy of 220.20 dollars was sent to a group with fifty dollars per emoji
\* with 4 glyphs and to a group with one dollar per emoji with 50.
C14_Witness ==
    \E c, d \in gateway :
        /\ c.ev = d.ev /\ c.li = d.li
        /\ RunOf(c).usdValue = 220200
        /\ SettingsOf(c).dollarsPerEmoji = 50 * Milli /\ c.glyphs = 4
        /\ SettingsOf(d).dollarsPerEmoji = 1 * Milli /\ d.glyphs = 50

----------------------------------------------------------------------------
(* The resync loop with an upstream that does not answer *)

\* The pool whose token0/token1 reads never return.
Unresponsive == {<<"P1", "lc">>}

\* What the wizard stores in these runs: token A (pools 1 and 3) or token B
\* (pool 3), discovered or given by hand.
HangFinals ==
    WizardFinals(defaultChain, {TokenA, TokenB}, {<<"P3", "cs">>}, {50 * Milli},
                 {Undefined}, {50 * Milli})

\* The read of a pool that answers is answered.
Answered(t) ==
    ticks[t].pc = "resolve" /\ TickAddr(t) \notin Unresponsive /\ TickResolved(t)

\* The read of the unresponsive pool never returns.
Unanswered(t) ==
    ticks[t].pc = "resolve" /\ TickAddr(t) \in Unresponsive /\ TickHangs(t)

\* The resync loop one call at a time, the timer firing again and again; reads
\* of the unresponsive pool never return, every other read is answered.
NextHang ==
    \/ \E chat \in Groups, final \in HangFinals : StoreSettings(chat, final)
    \/ \E t \in {1} : TickStart(t)
    \/ \E t \in TickSlots : Answered(t)
    \/ \E t \in TickSlots : Unanswered(t)
    \/ \E t \in TickSlots : TickReturn(t)

SpecHang ==
    /\ Init
    /\ [][NextHang]_vars
    /\ WF_vars(\E t \in {1} : TickStart(t))
    /\ WF_vars(\E t \in TickSlots : Answered(t))
    /\ WF_vars(\E t \in TickSlots : Unanswered(t))
    /\ WF_vars(\E t \in TickSlots : TickReturn(t))

\* The group's stored pools, lowercased.
C15_PoolsOf(g) == {ToLowerCase(PoolSets[g][k]) : k \in 1..Len(PoolSets[g])}

\* The pool is stored for the group, and the group has no unresponsive pool.
C15_Waiting(g, a) ==
    a \in C15_PoolsOf(g) /\ C15_PoolsOf(g) \cap Unresponsive = {}

\* C15: a group none of whose pools is the unresponsive one has its pools
\* subscribed by some later resync call, wherever it stands in the map
\* (unless its settings are stored anew first).
C15_OtherGroupsSubscribed ==
    \A g \in Groups : \A a \in LowerPools \ Unresponsive :
        C15_Waiting(g, a) ~> (a \in pairs[defaultChain] \/ ~C15_Waiting(g, a))

----------------------------------------------------------------------------
(* Lookups that fail *)

\* C16: once the price lookup is over, the native price is the ticker's price
\* or the fixed fallback price of the chain, and the USD value is a number;
\* no gateway call is made for a USD value that is not a number.
C16_PriceOrFallback ==
    /\ \A id \in Runs :
          LET run == handlers[id]
          IN run.pc \in {"balance", "lp", "send", "done"} =>
                /\ run.nativePriceUsd \in
                      {TickerPrice,
                       IF run.chain = "bsc" THEN BscFallbackPrice ELSE EthFallbackPrice}
                /\ run.usdValue # NaN
    /\ \A c \in gateway : handlers[<<c.ev, c.li>>].usdValue # NaN

\* C17: a run whose market-data lookup threw goes on with decimals 18, symbol
\* TOKEN, market cap 0 and volume 0; a run whose balance read threw goes on
\* with balance 0 and no position increase; the USD value is base-in times the
\* native price whatever the two lookups did, and a group is sent the alert
\* exactly when that value, rounded, lies in its band.
C17_FailedLookupsKeepDefaults ==
    \A id \in Runs :
        LET run == handlers[id]
        IN /\ run.market = "throws" =>
                 /\ run.pc \notin {"market", "discarded"}
                 /\ run.tokenDecimals = 18 /\ run.tokenSymbol = "TOKEN"
                 /\ run.marketCap = 0 /\ run.volume24h = 0
           /\ run.balance = "throws" =>
                 /\ run.pc \in {"lp", "send", "done"}
                 /\ run.prevBalance = 0 /\ run.positionIncrease = Null
           /\ run.pc \in {"balance", "lp", "send", "done"} =>
                 /\ run.baseAmount = FormatUnits(C4_BaseIn(run), 18)
                 /\ run.usdValue = Times(run.baseAmount, run.nativePriceUsd)
           /\ run.pc \in {"lp", "send", "done"} =>
                 \A i \in 1..Len(run.related) :
                     Past(run, i) =>
                        (Called(run, i) <=>
                            C3_RoundedInBand(heap[run.related[i].oid], run.usdValue))

\* Both lookups threw and the alert of the buy was sent to a group.
C17_Witness ==
    \E id \in Runs :
        LET run == handlers[id]
        IN /\ run.pc = "done"
           /\ run.market = "throws" /\ run.balance = "throws"
           /\ run.usdValue # NaN
           /\ \E i \in 1..Len(run.related) : Called(run, i)

----------------------------------------------------------------------------
(* A gateway call that fails *)

\* The step in which a gateway call of the run is rejected.
C18_SendFails(id) ==
    /\ handlers[id].pc = "send"
    /\ handlers'[id].failed # handlers[id].failed

----------------------------------------------------------------------------
(* The gateway call of one alert *)

\* Settings as sendPremiumBuyAlert can be handed them: with or without an
\* uploaded animation, an uploaded image and an image URL.
MediaInputs ==
    [animationFileId : {NoText, <<"A", "1">>, <<"A", "2">>},
     imageFileId : {NoText, <<"I", "1">>, <<"I", "2">>},
     imageUrl : {NoText,
                 <<"a", ".", "g", "i", "f">>, <<"a", ".", "G", "I", "F">>,
                 <<"b", ".", "G", "i", "f">>, <<".", "g", "i", "f">>,
                 <<"a", ".", "p", "n", "g">>, <<"g", "i", "f">>,
                 <<"a", ".", "g", "i", "f", "x">>, <<"a", "g", "i", "f">>}]

InitMedia ==
    /\ InitProgram
    /\ probe \in {[fn |-> "media", settings |-> m, ok |-> TRUE, calls |-> <<>>,
                   done |-> FALSE] : m \in MediaInputs}

\* The try block of sendPremiumBuyAlert for an alert that passed the filter:
\* the branch taken makes its bot.telegram call, which resolves or rejects;
\* either way the function returns.
SendMedia(ok) ==
    /\ probe.fn = "media" /\ ~probe.done
    /\ probe' = [probe EXCEPT
                    !.done = TRUE,
                    !.ok = ok,
                    !.calls = Append(@, ChooseMedia(probe.settings.animationFileId,
                                                    probe.settings.imageFileId,
                                                    probe.settings.imageUrl))]
    /\ ProbeUnchanged

NextMedia == \E ok \in BOOLEAN : SendMedia(ok)

SpecMedia == InitMedia /\ [][NextMedia]_vars

\* The image URLs of MediaInputs that end in ".gif" in some letter case.
C19_GifUrls ==
    {<<"a", ".", "g", "i", "f">>, <<"a", ".", "G", "I", "F">>,
     <<"b", ".", "G", "i", "f">>, <<".", "g", "i", "f">>}

\* C19: an alert that is dispatched makes exactly one gateway call:
\* send-animation with the uploaded animation if there is one; else send-image
\* with the uploaded image if there is one; else, with an image URL,
\* send-animation if the URL ends in ".gif" in any letter case and send-image
\* if not; else send-text.
C19_OneCallInPriorityOrder ==
    probe.fn = "media" /\ probe.done =>
        LET s == probe.settings
        IN /\ Len(probe.calls) = 1
           /\ probe.calls[1] =
                 IF s.animationFileId # NoText
                 THEN [method |-> "sendAnimation", media |-> s.animationFileId]
                 ELSE IF s.imageFileId # NoText
                 THEN [method |-> "sendPhoto", media |-> s.imageFileId]
                 ELSE IF s.imageUrl \in C19_GifUrls
                 THEN [method |-> "sendAnimation", media |-> s.imageUrl]
                 ELSE IF s.imageUrl # NoText
                 THEN [method |-> "sendPhoto", media |-> s.imageUrl]
                 ELSE [method |-> "sendMessage", media |-> NoText]

\* An uploaded image and a ".GIF" URL are both set: the uploaded image is sent.
C19_Witness ==
    /\ probe.fn = "media" /\ probe.done
    /\ probe.settings.animationFileId = NoText
    /\ probe.settings.imageFileId = <<"I", "1">>
    /\ probe.settings.imageUrl = <<"a", ".", "G", "I", "F">>
    /\ probe.calls = <<[method |-> "sendPhoto", media |-> <<"I", "1">>]>>

----------------------------------------------------------------------------
(* What the event handlers leave alone *)

\* C20: a step of handleSwap, of its lookups or of sendPremiumBuyAlert (one
\* that moves a run or calls the gateway) leaves the chain-to-connection map,
\* the providers behind it and every chain's pool registry and subscriptions
\* as they are; these change only in a step of a syncListeners call.
C20_HandlersLeaveRegistriesAlone ==
    [][/\ (handlers' # handlers \/ gateway' # gateway) =>
             UNCHANGED <<runtimes, providers, pairs, listeners>>
       /\ (runtimes' # runtimes \/ pairs' # pairs \/ listeners' # listeners) =>
             /\ ticks' # ticks
             /\ handlers' = handlers /\ gateway' = gateway]_vars

\* A buy on a subscribed pool went through the whole pipeline, balance read
\* and gateway call included, and the pool is still registered and subscribed.
C20_Witness ==
    \E id \in Runs :
        LET run == handlers[id]
        IN /\ run.pc = "done"
           /\ run.balance # "none"
           /\ Called(run, 1)
           /\ runtimes[run.chain] # 0
           /\ run.pairAddress \in pairs[run.chain]
           /\ listeners[run.chain][run.pairAddress] > 0

----------------------------------------------------------------------------
(* The order of the lookups and the sends of one event *)

\* C21: when the gateway is called for an event, the market-data lookup, the
\* native-price lookup and the balance read of that run have all answered or
\* fallen back; and the balance read, once issued, carries the block tag
\* (block of the event) - 1.
C21_LookupsBeforeSends ==
    /\ \A c \in gateway :
          LET run == RunOf(c)
          IN /\ run.pc \in {"lp", "send", "done"}
             /\ run.market # "none"
             /\ run.nativePriceUsd # 0
             /\ run.balance # "none"
    /\ \A id \in Runs :
          LET run == handlers[id]
          IN (run.pc = "balance" \/ run.balance # "none") =>
                run.blockTag = run.amounts.blockNumber - 1

\* The alert of a buy in block 8 was sent after its balance was read at
\* block 7.
C21_Witness ==
    \E c \in gateway :
        LET run == RunOf(c)
        IN /\ run.amounts.blockNumber = 8
           /\ run.blockTag = 7
           /\ run.balance = "ok"
           /\ run.market = "pair"

----------------------------------------------------------------------------
(* A gateway call that never returns *)

\* The group whose gateway calls stay pending.
SlowGroups == {1}

\* What the wizard stores in these runs: token A with its pools discovered, a
\* minimum of 50 dollars, no maximum, no image.
StallFinals ==
    WithImages({f \in WizardFinals(defaultChain, {TokenA}, {<<"P1", "lc">>},
                                   {50 * Milli}, {Undefined}, {50 * Milli}) :
                   Len(f.allPairAddresses) > 1},
               {<<"S", "k", "i", "p">>})

\* A buy of token A on its main pool.
StallAmounts ==
    {[amount0In |-> 0, amount1In |-> 83, amount0Out |-> 7, amount1Out |-> 0,
      blockNumber |-> 21]}

\* The gateway call of a group that is not slow resolves or rejects.
Completes(id, ok) ==
    /\ handlers[id].pc = "send"
    /\ handlers[id].related[handlers[id].gi].group \notin SlowGroups
    /\ HandlerSent(id, ok)

\* The wizard, the resync loop one call at a time, and the swap pipeline in
\* which the calls to the slow group never return.
NextStall ==
    \/ \E chat \in Groups, final \in StallFinals : StoreSettings(chat, final)
    \/ \E t \in {1} : TickStart(t)
    \/ \E t \in TickSlots : TickResolved(t)
    \/ \E t \in TickSlots : TickReturn(t)
    \/ \E chain \in ConfiguredChains, addr \in LowerPools, amounts \in StallAmounts :
          EmitSwap(chain, addr, amounts)
    \/ \E id \in RunIds, reply \in MarketReplies : HandlerMarket(id, reply)
    \/ \E id \in RunIds, reply \in PriceReplies : HandlerPriced(id, reply)
    \/ \E id \in RunIds, reply \in BalanceReplies : HandlerBalance(id, reply)
    \/ \E id \in RunIds : HandlerLp(id)
    \/ \E id \in RunIds, ok \in BOOLEAN : Completes(id, ok)

\* Every lookup answers and every gateway call but those to the slow group
\* returns.
SpecStall ==
    /\ Init
    /\ [][NextStall]_vars
    /\ WF_vars(\E id \in RunIds, reply \in MarketReplies : HandlerMarket(id, reply))
    /\ WF_vars(\E id \in RunIds, reply \in PriceReplies : HandlerPriced(id, reply))
    /\ WF_vars(\E id \in RunIds, reply \in BalanceReplies : HandlerBalance(id, reply))
    /\ WF_vars(\E id \in RunIds : HandlerLp(id))
    /\ WF_vars(\E id \in RunIds, ok \in BOOLEAN : Completes(id, ok))

\* The run waits for its call to the first of two related groups, and the
\* second group's band lets the alert through.
C22_FirstCallPending(id) ==
    /\ handlers[id].pc = "send"
    /\ handlers[id].gi = 1
    /\ Len(handlers[id].related) = 2
    /\ ~Filtered(heap[handlers[id].related[2].oid], handlers[id].usdValue)

\* The gateway was called for the second related group of the run.
C22_SecondCalled(id) ==
    /\ handlers[id].pc # "none"
    /\ Len(handlers[id].related) = 2
    /\ Called(handlers[id], 2)

\* C22: while the gateway call for one group of an event is pending, the
\* alert of the same event is still delivered to the second related group.
C22_SecondGroupNotBlocked ==
    \A id \in RunIds :
        C22_FirstCallPending(id) ~> C22_SecondCalled(id)

----------------------------------------------------------------------------
(* One buy from the wizard to the gateway *)

\* The market-data reply to the wizard's token step: two pools of token A,
\* the larger with 50,000 and the smaller with 10,000 dollars of liquidity.
EndReply == <<[Pool3 EXCEPT !.liquidityUsd = 10000], Pool1>>

\* What the wizard stores for that reply with a minimum of 50 dollars, no
\* maximum, ten or fifty dollars per emoji and no image.
EndFinals ==
    {FinalSettings([AfterTokenPairs(NewState(0, defaultChain), TokenA,
                                    TokenPairsOf(EndReply, TokenA))
                       EXCEPT !.minBuyUsd = 50 * Milli, !.dollarsPerEmoji = per],
                   "skip") : per \in {10 * Milli, 50 * Milli}}

\* A swap that pays 2 units of token0 (2 * 10^18 raw) in and token1 out, in
\* block 21.
EndAmounts ==
    {[amount0In |-> 2000, amount1In |-> 0, amount0Out |-> 0, amount1Out |-> 7,
      blockNumber |-> 21]}

\* The wizard run once in each group, the resync loop one call at a time, and
\* the swap pipeline.
NextEnd ==
    \/ \E chat \in Groups, final \in EndFinals :
          chat = setups + 1 /\ StoreSettings(chat, final)
    \/ \E t \in {1} : TickStart(t)
    \/ \E t \in TickSlots : TickResolved(t)
    \/ \E t \in TickSlots : TickReturn(t)
    \/ \E chain \in ConfiguredChains, addr \in LowerPools, amounts \in EndAmounts :
          EmitSwap(chain, addr, amounts)
    \/ \E id \in RunIds, reply \in MarketReplies : HandlerMarket(id, reply)
    \/ \E id \in RunIds, reply \in PriceReplies : HandlerPriced(id, reply)
    \/ \E id \in RunIds, reply \in BalanceReplies : HandlerBalance(id, reply)
    \/ \E id \in RunIds : HandlerLp(id)
    \/ \E id \in RunIds, ok \in BOOLEAN : HandlerSent(id, ok)

SpecEnd == Init /\ [][NextEnd]_vars

\* The run handles the swap on the smaller pool, on bsc, priced at 600.
C23_Priced(run) ==
    /\ run.chain = "bsc"
    /\ run.pairAddress = <<"P3", "lc">>
    /\ run.pc \in {"balance", "lp", "send", "done"}
    /\ run.nativePriceUsd = TickerPrice

\* The scenario with the given headline tier.
C23_EndToEnd(tier) ==
    /\ \A g \in Groups :
          groupSettings[g] # 0 =>
             /\ heap[groupSettings[g]].pairAddress = <<"P1", "cs">>
             /\ heap[groupSettings[g]].allPairAddresses = <<<<"P1", "cs">>, <<"P3", "cs">>>>
    /\ \A id \in Runs :
          LET run == handlers[id]
          IN C23_Priced(run) =>
                /\ run.baseAmount = 2 * Milli
                /\ run.usdValue = 1200 * Milli
                /\ \A i \in 1..Len(run.related) : Past(run, i) => Called(run, i)
                /\ \A c \in gateway :
                      (c.ev = run.ev /\ c.li = run.li) =>
                         /\ c.headline = tier
                         /\ c.glyphs = Min(50, 1200 \div (SettingsOf(c).dollarsPerEmoji \div Milli))

\* C23 as stated: the main pair is the larger pool and the pool set holds
\* both; the swap of 2 on the smaller pool at 600 is worth 1200, passes the
\* filter and is sent with the "big buy" headline and a bar of
\* floor(1200 / dollarsPerEmoji) glyphs, at most 50.
C23_EndToEndBigBuy == C23_EndToEnd("big buy")

\* C23 with the headline the thresholds give: 1200 is at least 1000 and
\* below 3000, which is "strong buy".
C23_EndToEndStrongBuy == C23_EndToEnd("strong buy")

\* The alert of the 1200-dollar buy was sent with a capped bar of 50 glyphs
\* to one group and a bar of 24 glyphs to the other.
C23_Witness ==
    \E id \in Runs :
        /\ C23_Priced(handlers[id])
        /\ handlers[id].pc = "done"
        /\ \E c, d \in gateway :
              /\ c.ev = id[1] /\ c.li = id[2] /\ d.ev = id[1] /\ d.li = id[2]
              /\ c.glyphs = 50 /\ d.glyphs = 24

----------------------------------------------------------------------------
(* A connection that cannot be opened *)

\* The endpoint of a chain without a runtime goes down: a connection opened
\* from now on is never established.  The provider constructors of line 71-73
\* are not awaited and return before the connection is tried.
EndpointDown(chain) ==
    /\ runtimes[chain] = 0
    /\ chain \notin connFailed
    /\ connFailed' = connFailed \cup {chain}
    /\ UNCHANGED <<probe, defaultChain, heap, groupSettings, groupOrder, groupSetupStates,
                   pendingToken, setups, runtimes, pairs, listeners, providers,
                   ticks, handlers, events, runsOf, gateway, inRow>>

\* The wizard and the resync loop one call at a time, with endpoints that can
\* be down before the first connection is opened.
NextDown ==
    \/ \E chat \in Groups, final \in SyncFinals : StoreSettings(chat, final)
    \/ \E chain \in ConfiguredChains : EndpointDown(chain)
    \/ \E t \in {1} : TickStart(t)
    \/ \E t \in TickSlots : TickResolved(t)
    \/ \E t \in TickSlots : TickRejected(t)
    \/ \E t \in TickSlots, ok \in BOOLEAN : TickRetry0(t, ok)
    \/ \E t \in TickSlots, ok \in BOOLEAN : TickRetry1(t, ok)
    \/ \E t \in TickSlots : TickReturn(t)

SpecDown == Init /\ [][NextDown]_vars

\* C24: a chain whose connection could not be opened has no cached runtime
\* (so that the next resync call opens a connection again).
C24_NoRuntimeForFailedOpen ==
    \A chain \in ConfiguredChains :
        chain \in connFailed => runtimes[chain] = 0

----------------------------------------------------------------------------
(* An error that escapes handleSwap *)

\* The market-data replies of these runs: those of MarketReplies and a pair
\* record with a decimals field that formatUnits does not accept.
RejectReplies == MarketReplies \cup {"decimals"}

\* The wizard run once in each group, the resync loop one call at a time, and
\* the swap pipeline with market-data replies of any shape.
NextReject ==
    \/ \E chat \in Groups, final \in StallFinals :
          chat = setups + 1 /\ StoreSettings(chat, final)
    \/ \E t \in {1} : TickStart(t)
    \/ \E t \in TickSlots : TickResolved(t)
    \/ \E t \in TickSlots : TickReturn(t)
    \/ \E chain \in ConfiguredChains, addr \in LowerPools, amounts \in StallAmounts :
          EmitSwap(chain, addr, amounts)
    \/ \E id \in RunIds, reply \in RejectReplies : HandlerMarket(id, reply)
    \/ \E id \in RunIds, reply \in PriceReplies : HandlerPriced(id, reply)
    \/ \E id \in RunIds, reply \in BalanceReplies : HandlerBalance(id, reply)
    \/ \E id \in RunIds : HandlerLp(id)
    \/ \E id \in RunIds, ok \in BOOLEAN : HandlerSent(id, ok)

SpecReject == Init /\ [][NextReject]_vars

\* C25: an error that escapes the handling of a swap event is contained: no
\* handleSwap call ends in a rejection that nothing handles.
C25_SwapErrorsContained ==
    \A id \in Runs : handlers[id].pc # "unhandled"

----------------------------------------------------------------------------
(* Groups stored while the tracker runs *)

\* The group's settings object was in the Map when the call began and still
\* is, and none of the call's reads of the group's pools failed.
C26_StoredBefore(t, g) ==
    /\ groupSettings[g] # 0
    /\ groupSettings[g] <= ticks[t].setupsAtStart
    /\ \A v \in ticks[t].gaveUp : ~Includes(PoolSets[g], v.addr)

\* C26: when a syncListeners call has run to its end, every pool of every
\* group that was stored before the call began, and whose reads did not fail
\* in it, has a registry entry and a listener.
C26_StoredGroupsSubscribed ==
    \A t \in Running :
        ticks[t].pc = "done" =>
            \A g \in Groups :
                C26_StoredBefore(t, g) =>
                    \A k \in 1..Len(PoolSets[g]) :
                        LET addr == ToLowerCase(PoolSets[g][k])
                            chain == heap[groupSettings[g]].chain
                        IN addr \in pairs[chain] /\ listeners[chain][addr] > 0

\* A call that began after the second wizard run has ended; it attached a
\* listener itself, and a group with two pools has both subscribed.
C26_Witness ==
    \E t \in Running :
        /\ ticks[t].pc = "done"
        /\ ticks[t].setupsAtStart = 2
        /\ ticks[t].attached # {}
        /\ \E g \in Groups : C26_StoredBefore(t, g) /\ Len(PoolSets[g]) = 2

----------------------------------------------------------------------------
(* The transport of a new connection *)

\* String.prototype.startsWith: exact characters, case included.
StartsWith(t, prefix) ==
    /\ Len(t) >= Len(prefix)
    /\ SubSeq(t, 1, Len(prefix)) = prefix

\* chainCfg.rpcUrl.startsWith("wss") ? WebSocketProvider : JsonRpcProvider
Transport(rpcUrl) ==
    IF StartsWith(rpcUrl, <<"w", "s", "s">>)
    THEN "WebSocketProvider" ELSE "JsonRpcProvider"

\* Endpoint URLs a config.json can hold: a scheme, "://", a host and a path.
UrlSchemes ==
    {<<"w", "s", "s">>, <<"w", "s">>, <<"W", "S", "S">>,
     <<"h", "t", "t", "p", "s">>, <<"h", "t", "t", "p">>}
UrlHosts == {<<"n">>, <<"w", "s", "s">>, <<"a", ".", "b">>}
UrlPaths == {<<>>, <<"/">>, <<"/", "w", "s">>}

RpcUrl(scheme, host, path) == scheme \o <<":", "/", "/">> \o host \o path

InitTransport ==
    /\ InitProgram
    /\ probe \in {[fn |-> "transport", scheme |-> sc, rpcUrl |-> RpcUrl(sc, h, p),
                   done |-> FALSE, transport |-> "none"] :
                     sc \in UrlSchemes, h \in UrlHosts, p \in UrlPaths}

\* syncListeners finds no runtime for the chain and constructs the provider.
NewProvider ==
    /\ probe.fn = "transport" /\ ~probe.done
    /\ probe' = [probe EXCEPT !.done = TRUE, !.transport = Transport(probe.rpcUrl)]
    /\ ProbeUnchanged

NextTransport == NewProvider

SpecTransport == InitTransport /\ [][NextTransport]_vars

\* C27: the new connection is a WebSocket (streaming) one exactly when the
\* endpoint URL is a WebSocket URL, of scheme ws or wss in any letter case,
\* and a JSON-RPC (polling) one otherwise.
C27_StreamingIffAdvertised ==
    probe.fn = "transport" /\ probe.done =>
        (probe.transport = "WebSocketProvider"
            <=> LowerText(probe.scheme) \in {<<"w", "s">>, <<"w", "s", "s">>})

----------------------------------------------------------------------------
(* The headline on its own *)

\* USD values in thousandths of a dollar: around each threshold, small, large
\* and NaN.
HeadlineValues ==
    {t * Milli + d : t \in {1000, 3000, 5000},
                     d \in {-1000, -501, -500, -499, -1, 0, 1, 499, 500, 1000}}
    \cup {0, 50 * Milli, 10000 * Milli, NaN}

InitHeadline ==
    /\ InitProgram
    /\ probe \in {[fn |-> "headline", small |-> a, large |-> b, done |-> FALSE,
                   ofSmall |-> "none", ofLarge |-> "none"] :
                     a \in HeadlineValues, b \in HeadlineValues}

\* sendPremiumBuyAlert builds the headline of two alerts.
BuildHeadlines ==
    /\ probe.fn = "headline" /\ ~probe.done
    /\ probe' = [probe EXCEPT !.done = TRUE,
                              !.ofSmall = HeaderLine(probe.small),
                              !.ofLarge = HeaderLine(probe.large)]
    /\ ProbeUnchanged

NextHeadline == BuildHeadlines

SpecHeadline == InitHeadline /\ [][NextHeadline]_vars

\* The tiers in their order.
C28_Rank(tier) ==
    CASE tier = "new buy" -> 1 [] tier = "strong buy" -> 2
      [] tier = "big buy" -> 3 [] tier = "whale" -> 4 [] OTHER -> 0

\* The tier of a value (in thousandths) for thresholds moved down by shift.
C28_Tier(usdValue, shift) ==
    IF usdValue >= 5000 * Milli - shift THEN "whale"
    ELSE IF usdValue >= 3000 * Milli - shift THEN "big buy"
    ELSE IF usdValue >= 1000 * Milli - shift THEN "strong buy"
    ELSE "new buy"

\* The headlines are tiers in the order of the values.
C28_Monotone ==
    /\ C28_Rank(probe.ofSmall) > 0 /\ C28_Rank(probe.ofLarge) > 0
    /\ (probe.small # NaN /\ probe.large # NaN /\ probe.small <= probe.large) =>
          C28_Rank(probe.ofSmall) <= C28_Rank(probe.ofLarge)

\* C28 as stated: each alert has one headline, "new buy" below 1000 dollars,
\* "strong buy" from 1000, "big buy" from 3000, "whale" from 5000, and a
\* larger buy never has a lower tier than a smaller one.
C28_TierOfUsdValue ==
    probe.fn = "headline" /\ probe.done =>
        /\ C28_Monotone
        /\ probe.small # NaN => probe.ofSmall = C28_Tier(probe.small, 0)

\* C28 as the code has it: the thresholds are compared with the value rounded
\* to whole dollars, so each tier begins half a dollar below its threshold;
\* a value that is NaN gets "new buy".
C28_TierOfRoundedUsdValue ==
    probe.fn = "headline" /\ probe.done =>
        /\ C28_Monotone
        /\ probe.ofSmall = IF probe.small = NaN THEN "new buy"
                           ELSE C28_Tier(probe.small, Milli \div 2)

\* 999.50 dollars is headed "strong buy" and 4999.499 dollars "big buy".
C28_Witness ==
    /\ probe.fn = "headline" /\ probe.done
    /\ probe.small = 1000 * Milli - 500 /\ probe.ofSmall = "strong buy"
    /\ probe.large = 5000 * Milli - 501 /\ probe.ofLarge = "big buy"

----------------------------------------------------------------------------
(* Discovery in the resync loop (syncListeners 58-83).                      *)

\* The pool set is empty or holds the main pair and nothing else.
C29_OnlyMainPair(settings) ==
    \/ settings.allPairAddresses = <<>>
    \/ /\ Len(settings.allPairAddresses) = 1
       /\ ToLowerCase(settings.allPairAddresses[1]) = ToLowerCase(settings.pairAddress)

\* The call in slot t comes to a group in this step: to its getAllValidPairs
\* request or to the first token0/token1 read for one of its pools.
C29_ComesToGroup(t) ==
    /\ ticks'[t].pc \in {"discover", "resolve"}
    /\ IF ticks[t].pc \in {"discover", "resolve"}
       THEN ticks[t].gi # ticks'[t].gi
       ELSE TRUE

\* C29: a resync call that comes to a group whose pool set is empty or holds
\* only the main pair asks the market-data collaborator for the pools of the
\* group's token before it reads or subscribes any pool of the group.
C29_TickQueriesForMainPairOnly ==
    [][\A t \in TickSlots :
          C29_ComesToGroup(t) /\ C29_OnlyMainPair(heap'[ticks'[t].oid])
              => ticks'[t].pc = "discover"]_vars

----------------------------------------------------------------------------
(* Groups of different tokens that share a pool (handleSwap 202-238,        *)
(* 313-331).                                                                *)

\* Swaps of pool 3 (token0 = B, token1 = A) in block 21: B paid in and A
\* paid out, or A paid in and B paid out.
SharedAmounts ==
    {[amount0In |-> 167, amount1In |-> 0, amount0Out |-> 0, amount1Out |-> 7,
      blockNumber |-> 21],
     [amount0In |-> 0, amount1In |-> 167, amount0Out |-> 7, amount1Out |-> 0,
      blockNumber |-> 21]}

\* The wizard run once in each group for token A (pools 1 and 3) or token B
\* (pool 3), the resync loop one call at a time, and the swap pipeline with
\* the market data and the balance read answered and every send resolved.
NextShared ==
    \/ \E chat \in Groups, final \in HangFinals :
          chat = setups + 1 /\ StoreSettings(chat, final)
    \/ \E t \in {1} : TickStart(t)
    \/ \E t \in TickSlots : TickResolved(t)
    \/ \E t \in TickSlots : TickReturn(t)
    \/ Pipeline(SharedAmounts, {"pair"}, {[ok |-> TRUE, balance |-> 2]}, {TRUE})

SpecShared == Init /\ [][NextShared]_vars

\* The event of the run is a buy of the token the settings object tracks.
C30_OwnBuy(run, oid) == Classify(run.tokens, heap[oid].tokenAddress, run.amounts).buy

\* C30: a group is sent an alert for an event only if the event is a buy of
\* the group's own tracked token, whichever other groups have the pool in
\* their pool sets.
C30_AlertsOnlyForOwnBuys ==
    \A c \in gateway :
        LET run == handlers[<<c.ev, c.li>>]
        IN \A i \in 1..Len(run.related) :
              run.related[i].group = c.group => C30_OwnBuy(run, run.related[i].oid)

----------------------------------------------------------------------------
(* Events of pools a group no longer lists (handleSwap 202-214,             *)
(* syncListeners 98, 152).                                                  *)

\* The wizard run in any group at any time, also a second time in the same
\* group (a reconfiguration), for token A (pools 1 and 3) or token B
\* (pool 3); the resync loop one call at a time; the swap pipeline with the
\* market data and the balance read answered and every send resolved.
NextReconf ==
    \/ \E chat \in Groups, final \in HangFinals : StoreSettings(chat, final)
    \/ \E t \in {1} : TickStart(t)
    \/ \E t \in TickSlots : TickResolved(t)
    \/ \E t \in TickSlots : TickReturn(t)
    \/ Pipeline(SharedAmounts, {"pair"}, {[ok |-> TRUE, balance |-> 2]}, {TRUE})

SpecReconf == Init /\ [][NextReconf]_vars

\* The groups whose stored settings are on the chain and list the pool: the
\* same address, whatever the letter case of either spelling.
C31_Listing(chain, pairAddress) ==
    {g \in Groups :
        /\ groupSettings[g] # 0
        /\ heap[groupSettings[g]].chain = chain
        /\ \E k \in 1..Len(PoolSets[g]) : PoolSets[g][k][1] = pairAddress[1]}

\* The groups a run found related when its event arrived.
C31_RelatedOf(run) == {run.related[i].group : i \in 1..Len(run.related)}

\* C31: a gateway call for an event goes to a group that was on the event's
\* chain and listed its pool when the event arrived; pool registrations are
\* never removed; an event of a pool that no group lists any more is dropped
\* with no gateway call.
C31_AlertsOnlyToListingGroups ==
    /\ [](\A id \in Runs :
             LET run == handlers[id]
             IN /\ \A c \in gateway :
                      c.ev = run.ev /\ c.li = run.li => c.group \in C31_RelatedOf(run)
                /\ run.related = <<>> =>
                      /\ run.pc = "unrelated"
                      /\ \A c \in gateway : ~(c.ev = run.ev /\ c.li = run.li))
    /\ [][/\ \A id \in RunIds :
                IF handlers[id].pc = "none"
                THEN handlers'[id].pc # "none" =>
                        C31_RelatedOf(handlers'[id]) =
                           C31_Listing(handlers'[id].chain, handlers'[id].pairAddress)
                ELSE handlers'[id].related = handlers[id].related
          /\ \A chain \in ConfiguredChains :
                /\ pairs[chain] \subseteq pairs'[chain]
                /\ \A a \in LowerPools : listeners'[chain][a] >= listeners[chain][a]]_vars

\* A group was reconfigured away from pool 1, the pool is still registered,
\* and its event was dropped with no gateway call.
C31_Witness ==
    /\ setups = 2
    /\ Len(groupOrder) = 1
    /\ \E id \in Runs :
          /\ handlers[id].pc = "unrelated"
          /\ handlers[id].pairAddress \in pairs[handlers[id].chain]
          /\ C31_Listing(handlers[id].chain, handlers[id].pairAddress) = {}
    /\ gateway = {}

----------------------------------------------------------------------------
(* Groups on a chain without endpoint configuration (syncListeners 53-56).  *)

\* config.json may name any chain as defaultChain, also one with no entry in
\* chains: nothing validates the file.
InitAnyChain == defaultChain \in KnownChains /\ InitState /\ probe = NoProbe

SpecAnyChain == InitAnyChain /\ [][NextRetry]_vars

\* The group has settings whose chain has no entry in appConfig.chains.
C32_Unconfigured(g) ==
    groupSettings[g] # 0 /\ heap[groupSettings[g]].chain \notin ConfiguredChains

----------------------------------------------------------------------------
(* What the wizard stores, and when (text handler 256-303, runSetupStep).   *)

\* What a wizard state has collected by the step it is at.
C33_Collected(st) ==
    /\ st.step \in {"emoji", "image", "minBuy", "maxBuy", "perEmoji", "tgGroup"} =>
          /\ st.tokenAddress # NoAddress
          /\ st.pairAddress # NoAddress
          /\ st.allPairAddresses # <<>>
    /\ st.step \in {"maxBuy", "perEmoji", "tgGroup"} => st.minBuyUsd # Undefined
    /\ st.step = "tgGroup" => st.dollarsPerEmoji # Undefined

\* C33: the wizard writes the configuration map only in the step that answers
\* its last question (group link), when the answers of the steps before it
\* have been collected; what it stores has a token address, a main pair and a
\* non-empty pool set; the wizard state of the chat is deleted in the same
\* step; every other step leaves the map and the stored settings objects as
\* they were.
C33_StoredOnlyAtLastStep ==
    /\ [](\A chat \in Groups : C33_Collected(groupSetupStates[chat]))
    /\ [][/\ \A chat \in Groups :
                groupSettings'[chat] # groupSettings[chat] =>
                   /\ groupSetupStates[chat].step = "tgGroup"
                   /\ groupSetupStates'[chat] = NoState
                   /\ LET final == heap'[groupSettings'[chat]]
                      IN /\ final.tokenAddress # NoAddress
                         /\ final.pairAddress # NoAddress
                         /\ final.allPairAddresses # <<>>
          /\ \A o \in 1..MaxSetups :
                heap'[o] # heap[o] =>
                   /\ heap[o] = NoConfig
                   /\ \E chat \in Groups :
                         groupSettings'[chat] = o /\ groupSettings[chat] # o]_vars

\* A group that had settings was set up again, and the second run has stored
\* its settings in place of the first.
C33_Witness ==
    \E chat \in Groups :
        /\ groupOrder = <<chat>>
        /\ groupSettings[chat] = 2
        /\ heap[1] # NoConfig
        /\ groupSetupStates[chat] = NoState

----------------------------------------------------------------------------
(* The numeric steps of the wizard (runSetupStep 389-436).                  *)

\* Number(text) of the replies to a numeric step: no number, a negative
\* number, zero, and two positive numbers.
NumberTexts == {NaN, -5 * Milli, 0, 50 * Milli, 100 * Milli}

\* The wizard with one token answer at a time, any of these replies at the
\* numeric steps, and "skip" for the maximum as well.
NextNumbers ==
    \/ \E chat \in Groups : SetupHere(chat)
    \/ \E chat \in Groups : pendingToken = {} /\ StepTokenBegin(chat, TokenA)
    \/ \E p \in pendingToken, ok \in BOOLEAN : StepTokenEnd(p, ok)
    \/ \E chat \in Groups : StepPair(chat, <<"P1", "lc">>)
    \/ \E chat \in Groups : StepEmoji(chat)
    \/ \E chat \in Groups : StepImage(chat, Skip)
    \/ \E chat \in Groups, val \in NumberTexts : StepMinBuy(chat, val)
    \/ \E chat \in Groups, val \in NumberTexts \cup {Undefined} : StepMaxBuy(chat, val)
    \/ \E chat \in Groups, val \in NumberTexts : StepPerEmoji(chat, val)
    \/ \E chat \in Groups : StepTgGroup(chat, "skip")

SpecNumbers == Init /\ [][NextNumbers]_vars

\* The step of the wizard state before and after a wizard step is one that
\* stays (nothing changes), one that starts the wizard again, or one that
\* goes on to the step next with the field set to an accepted value.
C34_StaysOrAccepts(st, nx, step, next, accepted) ==
    st.step = step =>
        \/ nx = st
        \/ nx.step = "token"
        \/ /\ nx.step = next
           /\ accepted
           /\ \A f \in DOMAIN st \ {"step", "minBuyUsd", "maxBuyUsd", "dollarsPerEmoji"} :
                 nx[f] = st[f]

\* C34: at the minBuy, maxBuy and perEmoji steps a reply is either taken,
\* and then the value is a number >= 0 (minBuy), > 0 or none after "skip"
\* (maxBuy), > 0 (perEmoji), and only that field and the step change, or it
\* leaves the wizard state exactly as it was; every stored settings object
\* has minBuyUsd >= 0, maxBuyUsd unset or > 0, and dollarsPerEmoji > 0.
C34_NumbersValidated ==
    /\ [](\A g \in Groups :
             groupSettings[g] # 0 =>
                LET final == heap[groupSettings[g]]
                IN /\ final.minBuyUsd >= 0
                   /\ final.maxBuyUsd = Undefined \/ final.maxBuyUsd > 0
                   /\ final.dollarsPerEmoji > 0)
    /\ [][\A chat \in Groups :
             LET st == groupSetupStates[chat]
                 nx == groupSetupStates'[chat]
             IN /\ C34_StaysOrAccepts(st, nx, "minBuy", "maxBuy",
                                      nx.minBuyUsd >= 0
                                      /\ nx.maxBuyUsd = st.maxBuyUsd
                                      /\ nx.dollarsPerEmoji = st.dollarsPerEmoji)
                /\ C34_StaysOrAccepts(st, nx, "maxBuy", "perEmoji",
                                      (nx.maxBuyUsd > 0 \/ nx.maxBuyUsd = st.maxBuyUsd)
                                      /\ nx.minBuyUsd = st.minBuyUsd
                                      /\ nx.dollarsPerEmoji = st.dollarsPerEmoji)
                /\ C34_StaysOrAccepts(st, nx, "perEmoji", "tgGroup",
                                      nx.dollarsPerEmoji > 0
                                      /\ nx.minBuyUsd = st.minBuyUsd
                                      /\ nx.maxBuyUsd = st.maxBuyUsd)]_vars

\* A group has settings stored with a minimum of zero, and a wizard state is
\* at the perEmoji step with a maximum collected.
C34_Witness ==
    /\ \E g \in Groups : groupSettings[g] # 0 /\ heap[groupSettings[g]].minBuyUsd = 0
    /\ \E chat \in Groups :
          /\ groupSetupStates[chat].step = "perEmoji"
          /\ groupSetupStates[chat].maxBuyUsd > 0

----------------------------------------------------------------------------
(* Messages that arrive while the token step awaits (text handler 256-303,  *)
(* runSetupStep 313-355).                                                   *)

\* A handler of this wizard run is awaiting fetchTokenPairs.
C35_Completing(chat) ==
    \E p \in pendingToken : p.chat = chat /\ p.sid = groupSetupStates[chat].sid

\* C35: while the token step of a wizard is still completing the answer of
\* an earlier message, no later message is taken as an answer to the token
\* step of that wizard.
C35_OneAnswerPerTokenStep ==
    [][\A p \in pendingToken' \ pendingToken :
          ~(groupSetupStates[p.chat].step = "token" /\ C35_Completing(p.chat))]_vars

----------------------------------------------------------------------------
(* The /testbuy preview (feature.buyBot.ts 193-253) next to the live filter *)

\* bot.command("testbuy") in a group, by the reply it ends with.  settings
\* is groupSettings.get(chat.id) (NoConfig: no entry), arg is Number(parts[1])
\* (Undefined: no argument, the amount is 123).
TestBuy(settings, arg) ==
    LET usdVal == IF arg = Undefined THEN 123 * Milli ELSE arg
    IN IF settings = NoConfig THEN "nosettings"
       ELSE IF usdVal = NaN \/ usdVal <= 0 THEN "usage"
       ELSE IF Less(usdVal, settings.minBuyUsd) THEN "below"
       ELSE IF Truthy(settings.maxBuyUsd) /\ Greater(usdVal, settings.maxBuyUsd)
       THEN "above"
       ELSE "preview"

\* The amounts of the command, in thousandths of a dollar: none, no number,
\* negative, zero, and amounts around the bounds of 50 and 100 dollars.
TestBuyArgs ==
    {Undefined, NaN, -5 * Milli, 0, 1, 49400, 49500, 49600, 50 * Milli, 75 * Milli,
     100 * Milli, 100400, 100500, 100600}

\* No settings, or what the wizard stores for a minimum of 0 or 50 dollars
\* and a maximum of 100 dollars or none.
TestBuyConfigs ==
    {NoConfig} \cup WizardFinals(defaultChain, {TokenA}, {<<"P1", "lc">>},
                                 {0, 50 * Milli}, {Undefined, 100 * Milli}, {50 * Milli})

InitTestBuy ==
    /\ InitProgram
    /\ probe \in {[fn |-> "testbuy", settings |-> s, arg |-> a, done |-> FALSE,
                   reply |-> "none", dispatched |-> FALSE] :
                     s \in TestBuyConfigs, a \in TestBuyArgs}

\* The command is answered; next to it, what sendPremiumBuyAlert decides for
\* a buy of the same USD value in a group with the same settings.
TestBuyCommand ==
    /\ probe.fn = "testbuy" /\ ~probe.done
    /\ LET usdValue == IF probe.arg = Undefined THEN 123 * Milli ELSE probe.arg
       IN probe' = [probe EXCEPT
                       !.done = TRUE,
                       !.reply = TestBuy(probe.settings, probe.arg),
                       !.dispatched = /\ probe.settings # NoConfig
                                      /\ ~Filtered(probe.settings, usdValue)]
    /\ ProbeUnchanged

NextTestBuy == TestBuyCommand

SpecTestBuy == InitTestBuy /\ [][NextTestBuy]_vars

\* C36: the preview is sent exactly when a live buy of the same USD value
\* would be dispatched to a group with the same settings, and never without
\* settings.
C36_PreviewIffDispatched ==
    probe.done =>
        /\ (probe.reply = "preview") <=> probe.dispatched
        /\ probe.settings = NoConfig => probe.reply # "preview"

====
